---- MODULE Spec2Model ----
(***************************************************************************)
(* Model of the structural navigation code of the vscode-utilities         *)
(* extension: the curly-bracket pair finder, the s-expression navigator,   *)
(* the transposition handlers and the scope finders.                       *)
(*                                                                         *)
(* A document is a sequence of lines, a line a sequence of one-character  *)
(* strings.  Lines, columns and offsets are zero-based as in the code;     *)
(* the operators below translate to the one-based sequences of TLA+.       *)
(***************************************************************************)
EXTENDS Integers, Sequences, FiniteSets, TLC

VARIABLES doc, cursor, op, startPos, pair, sexp, lang, scopeStart, scopeEnd,
          scopeInfo, orig, first, second, editOps, wrapAround,
          selection, feature, factory, registry, returned

vars == <<doc, cursor, op, startPos, pair, sexp, lang, scopeStart, scopeEnd,
          scopeInfo, orig, first, second, editOps,
          wrapAround, selection, feature, factory, registry, returned>>

-----------------------------------------------------------------------------
(* Bounds of the checked instances. *)

MaxBracketLen == 5
MaxSexpLen == 4
MaxSwapLen == 4
MaxTsLines == 3
MaxPyLines == 3
MaxParentLen == 3
MaxNavLines == 3
MaxSizeLine == 2
MaxRepeatLen == 2
MaxRegistrations == 3

-----------------------------------------------------------------------------
(* vscode.TextDocument: lineCount, lineAt, getText, offsetAt, positionAt.  *)

NL == "\n"

\* what indexing a JavaScript string outside its length yields
Undefined == "undefined"

Min(a, b) == IF a < b THEN a ELSE b

Max(a, b) == IF a > b THEN a ELSE b

Pos(l, c) == [line |-> l, character |-> c]

LineCount(d) == Len(d)

LineText(d, l) == d[l + 1]

CharAt(s, i) == IF i >= 0 /\ i < Len(s) THEN s[i + 1] ELSE Undefined

RECURSIVE SplitLines(_)
SplitLines(t) ==
  IF \A i \in 1..Len(t) : t[i] # NL
  THEN <<t>>
  ELSE LET k == CHOOSE i \in 1..Len(t) :
                  t[i] = NL /\ \A j \in 1..(i - 1) : t[j] # NL
       IN <<SubSeq(t, 1, k - 1)>> \o SplitLines(SubSeq(t, k + 1, Len(t)))

RECURSIVE GetText(_)
GetText(d) ==
  IF Len(d) = 1 THEN d[1] ELSE d[1] \o <<NL>> \o GetText(Tail(d))

RECURSIVE LineStartOffset(_, _)
LineStartOffset(d, l) ==
  IF l = 0 THEN 0 ELSE LineStartOffset(d, l - 1) + Len(d[l]) + 1

OffsetAt(d, p) ==
  LET l == Max(0, Min(p.line, LineCount(d) - 1))
      c == IF p.line > LineCount(d) - 1 THEN Len(LineText(d, l))
           ELSE Max(0, Min(p.character, Len(LineText(d, l))))
  IN LineStartOffset(d, l) + c

PositionAt(d, offset) ==
  LET o == Max(0, Min(offset, Len(GetText(d))))
      l == CHOOSE k \in 0..(LineCount(d) - 1) :
             /\ LineStartOffset(d, k) <= o
             /\ o <= LineStartOffset(d, k) + Len(LineText(d, k))
  IN Pos(l, o - LineStartOffset(d, l))

ValidPositions(d) ==
  UNION {{Pos(l, c) : c \in 0..Len(LineText(d, l))} :
           l \in 0..(LineCount(d) - 1)}

\* vscode.Position.isBefore / isBeforeOrEqual
IsBefore(p, q) ==
  p.line < q.line \/ (p.line = q.line /\ p.character < q.character)

IsBeforeOrEqual(p, q) == IsBefore(p, q) \/ p = q

RECURSIVE SeqsUpTo(_, _)
SeqsUpTo(S, n) ==
  IF n = 0 THEN {<<>>}
  ELSE LET R == SeqsUpTo(S, n - 1)
       IN R \cup {Append(s, x) : s \in {r \in R : Len(r) = n - 1}, x \in S}

-----------------------------------------------------------------------------
(* CurlyBracketFinder (bracket-scope/finders/curly-bracket-finder).        *)

OPEN_BRACE == "{"

CLOSE_BRACE == "}"

NoPair == [openBracketLine |-> -1, openBracketChar |-> -1,
           closeBracketLine |-> -1, closeBracketChar |-> -1]

NoPos == Pos(-1, -1)

\* the backward search of findBracketPairContainingCursor: both for-loops,
\* from (line, char) down to (0, 0), carrying bracketStack
RECURSIVE SearchOpenBackward(_, _, _, _)
SearchOpenBackward(d, line, char, bracketStack) ==
  IF line < 0 THEN NoPos
  ELSE IF char < 0
       THEN IF line = 0 THEN NoPos
            ELSE SearchOpenBackward(d, line - 1,
                                    Len(LineText(d, line - 1)), bracketStack)
       ELSE LET ch == CharAt(LineText(d, line), char)
            IN IF ch = CLOSE_BRACE
               THEN SearchOpenBackward(d, line, char - 1, bracketStack + 1)
               ELSE IF ch = OPEN_BRACE
                    THEN IF bracketStack - 1 = -1
                         THEN Pos(line, char)
                         ELSE SearchOpenBackward(d, line, char - 1,
                                                 bracketStack - 1)
                    ELSE SearchOpenBackward(d, line, char - 1, bracketStack)

\* the forward search for the matching closing bracket: both for-loops, from
\* (line, char) to the end of the document, carrying bracketStack
RECURSIVE SearchCloseForwardMut(_, _, _, _)
SearchCloseForwardMut(d, line, char, bracketStack) ==
  IF line >= LineCount(d) THEN NoPos
  ELSE IF char >= Len(LineText(d, line))
       THEN SearchCloseForwardMut(d, line + 1, 0, bracketStack)
       ELSE LET ch == CharAt(LineText(d, line), char)
            IN IF ch = CLOSE_BRACE
               THEN Pos(line, char)
               ELSE SearchCloseForwardMut(d, line, char + 1, bracketStack)

RECURSIVE SearchCloseForward(_, _, _, _)
SearchCloseForward(d, line, char, bracketStack) ==
  IF line >= LineCount(d) THEN NoPos
  ELSE IF char >= Len(LineText(d, line))
       THEN SearchCloseForward(d, line + 1, 0, bracketStack)
       ELSE LET ch == CharAt(LineText(d, line), char)
            IN IF ch = OPEN_BRACE
               THEN SearchCloseForward(d, line, char + 1, bracketStack + 1)
               ELSE IF ch = CLOSE_BRACE
                    THEN IF bracketStack - 1 = 0
                         THEN Pos(line, char)
                         ELSE SearchCloseForward(d, line, char + 1,
                                                 bracketStack - 1)
                    ELSE SearchCloseForward(d, line, char + 1, bracketStack)

IsAfterOpeningMut(cursorLine, cursorChar, openBracketLine, openBracketChar) ==
  cursorLine > openBracketLine \/
  (cursorLine = openBracketLine /\ cursorChar >= openBracketChar)

IsAfterOpening(cursorLine, cursorChar, openBracketLine, openBracketChar) ==
  cursorLine > openBracketLine \/
  (cursorLine = openBracketLine /\ cursorChar > openBracketChar)

IsBeforeClosing(cursorLine, cursorChar, closeBracketLine, closeBracketChar) ==
  cursorLine < closeBracketLine \/
  (cursorLine = closeBracketLine /\ cursorChar < closeBracketChar)

findBracketPairContainingCursor(d, cursorLine, cursorChar) ==
  LET open == SearchOpenBackward(d, cursorLine, cursorChar, 0)
  IN IF open = NoPos THEN NoPair
     ELSE LET close == SearchCloseForward(d, open.line, open.character + 1, 1)
          IN IF close = NoPos THEN NoPair
             ELSE IF /\ IsAfterOpening(cursorLine, cursorChar,
                                       open.line, open.character)
                     /\ IsBeforeClosing(cursorLine, cursorChar,
                                        close.line, close.character)
                  THEN [openBracketLine |-> open.line,
                        openBracketChar |-> open.character,
                        closeBracketLine |-> close.line,
                        closeBracketChar |-> close.character]
                  ELSE NoPair

\* the search for the next opening bracket of findNextBracketPair
RECURSIVE SearchNextOpen(_, _, _)
SearchNextOpen(d, line, char) ==
  IF line >= LineCount(d) THEN NoPos
  ELSE IF char >= Len(LineText(d, line))
       THEN SearchNextOpen(d, line + 1, 0)
       ELSE IF CharAt(LineText(d, line), char) = OPEN_BRACE
            THEN Pos(line, char)
            ELSE SearchNextOpen(d, line, char + 1)

findNextBracketPair(d, cursorLine, cursorChar) ==
  LET open == SearchNextOpen(d, cursorLine, cursorChar)
  IN IF open = NoPos THEN NoPair
     ELSE LET close == SearchCloseForward(d, open.line, open.character + 1, 1)
          IN IF close = NoPos THEN NoPair
             ELSE [openBracketLine |-> open.line,
                   openBracketChar |-> open.character,
                   closeBracketLine |-> close.line,
                   closeBracketChar |-> close.character]

-----------------------------------------------------------------------------
(* TypeScriptSexpNavigator (sexp-navigation/finders/typescript-navigator). *)

openingChars == {"(", "[", "{"}

closingChars == {")", "]", "}"}

matchingPairs(ch) ==
  CASE ch = "(" -> ")"
    [] ch = "[" -> "]"
    [] ch = "{" -> "}"
    [] ch = ")" -> "("
    [] ch = "]" -> "["
    [] ch = "}" -> "{"

Letters ==
  {"a", "b", "c", "d", "e", "f", "g", "h", "i", "j", "k", "l", "m",
   "n", "o", "p", "q", "r", "s", "t", "u", "v", "w", "x", "y", "z",
   "A", "B", "C", "D", "E", "F", "G", "H", "I", "J", "K", "L", "M",
   "N", "O", "P", "Q", "R", "S", "T", "U", "V", "W", "X", "Y", "Z"}

Digits == {"0", "1", "2", "3", "4", "5", "6", "7", "8", "9"}

\* /[a-zA-Z0-9_$]/
IsIdentChar(ch) == ch \in Letters \cup Digits \cup {"_", "$"}

NoSexp == [startLine |-> -1, startChar |-> -1, endLine |-> -1, endChar |-> -1]

Boundary(d, startOffset, endOffset) ==
  LET startPosition == PositionAt(d, startOffset)
      endPosition == PositionAt(d, endOffset)
  IN [startLine |-> startPosition.line, startChar |-> startPosition.character,
      endLine |-> endPosition.line, endChar |-> endPosition.character]

StartOf(b) == Pos(b.startLine, b.startChar)

EndOf(b) == Pos(b.endLine, b.endChar)

RECURSIVE MatchClosingLoop(_, _, _, _, _)
MatchClosingLoop(text, currentPosition, openChar, closeChar, depth) ==
  IF currentPosition >= Len(text) THEN -1
  ELSE LET ch == CharAt(text, currentPosition)
       IN IF ch = openChar
          THEN MatchClosingLoop(text, currentPosition + 1, openChar, closeChar,
                                depth + 1)
          ELSE IF ch = closeChar
               THEN IF depth - 1 = 0 THEN currentPosition
                    ELSE MatchClosingLoop(text, currentPosition + 1, openChar,
                                          closeChar, depth - 1)
               ELSE MatchClosingLoop(text, currentPosition + 1, openChar,
                                     closeChar, depth)

findMatchingClosingCharMut(text, position, openChar, closeChar) ==
  MatchClosingLoop(text, position, openChar, closeChar, 1)

findMatchingClosingChar(text, position, openChar, closeChar) ==
  MatchClosingLoop(text, position, openChar, closeChar, 0)

RECURSIVE MatchOpeningLoop(_, _, _, _, _)
MatchOpeningLoop(text, currentPosition, closeChar, openChar, depth) ==
  IF currentPosition < 0 THEN -1
  ELSE LET ch == CharAt(text, currentPosition)
       IN IF ch = closeChar
          THEN MatchOpeningLoop(text, currentPosition - 1, closeChar, openChar,
                                depth + 1)
          ELSE IF ch = openChar
               THEN IF depth - 1 = 0 THEN currentPosition
                    ELSE MatchOpeningLoop(text, currentPosition - 1, closeChar,
                                          openChar, depth - 1)
               ELSE MatchOpeningLoop(text, currentPosition - 1, closeChar,
                                     openChar, depth)

findMatchingOpeningCharMut(text, position, closeChar, openChar) ==
  MatchOpeningLoop(text, position, closeChar, openChar, 1)

findMatchingOpeningChar(text, position, closeChar, openChar) ==
  MatchOpeningLoop(text, position, closeChar, openChar, 0)

\* the inner while loop of the identifier branch of findForwardSexp
RECURSIVE IdentEnd(_, _)
IdentEnd(text, currentPosition) ==
  IF currentPosition < Len(text) /\ IsIdentChar(CharAt(text, currentPosition))
  THEN IdentEnd(text, currentPosition + 1)
  ELSE currentPosition

\* the inner while loop of the identifier branch of findBackwardSexp
RECURSIVE IdentStart(_, _)
IdentStart(text, currentPosition) ==
  IF currentPosition >= 0 /\ IsIdentChar(CharAt(text, currentPosition))
  THEN IdentStart(text, currentPosition - 1)
  ELSE currentPosition

\* the outer while loop of findForwardSexp; the result is a pair of offsets
RECURSIVE ForwardLoop(_, _)
ForwardLoop(text, currentPosition) ==
  IF currentPosition >= Len(text) THEN <<-1, -1>>
  ELSE LET ch == CharAt(text, currentPosition)
       IN IF ch \in openingChars
          THEN LET endPosition ==
                     findMatchingClosingChar(text, currentPosition, ch,
                                             matchingPairs(ch))
               IN IF endPosition # -1
                  THEN <<currentPosition, endPosition + 1>>
                  ELSE ForwardLoop(text, currentPosition + 1)
          ELSE IF IsIdentChar(ch)
               THEN <<currentPosition, IdentEnd(text, currentPosition)>>
               ELSE ForwardLoop(text, currentPosition + 1)

findForwardSexp(d, position) ==
  LET r == ForwardLoop(GetText(d), OffsetAt(d, position))
  IN IF r[1] = -1 THEN NoSexp ELSE Boundary(d, r[1], r[2])

\* the outer while loop of findBackwardSexp
RECURSIVE BackwardLoop(_, _)
BackwardLoop(text, currentPosition) ==
  IF currentPosition < 0 THEN <<-1, -1>>
  ELSE LET ch == CharAt(text, currentPosition)
       IN IF ch \in closingChars
          THEN LET startPosition ==
                     findMatchingOpeningChar(text, currentPosition, ch,
                                             matchingPairs(ch))
               IN IF startPosition # -1
                  THEN <<startPosition, currentPosition + 1>>
                  ELSE BackwardLoop(text, currentPosition - 1)
          ELSE IF IsIdentChar(ch)
               THEN <<IdentStart(text, currentPosition) + 1,
                      currentPosition + 1>>
               ELSE BackwardLoop(text, currentPosition - 1)

findBackwardSexp(d, position) ==
  LET r == BackwardLoop(GetText(d), OffsetAt(d, position) - 1)
  IN IF r[1] = -1 THEN NoSexp ELSE Boundary(d, r[1], r[2])

-----------------------------------------------------------------------------
(* BaseSexpHandler and SexpTranspositionHandlers                           *)
(* (sexp-navigation/handlers/base-handler, transposition-handlers).        *)

\* vscode.Range orders its two positions; document.getText(range)
RangeText(d, p, q) ==
  LET a == OffsetAt(d, p)
      b == OffsetAt(d, q)
  IN SubSeq(GetText(d), Min(a, b) + 1, Max(a, b))

BoundaryText(d, b) == RangeText(d, StartOf(b), EndOf(b))

orderBoundaries(boundaryA, boundaryB) ==
  IF IsBefore(StartOf(boundaryA), StartOf(boundaryB))
  THEN <<boundaryA, boundaryB>>
  ELSE <<boundaryB, boundaryA>>

getSpaceBetweenMut(d, firstB, secondB) ==
  LET o == orderBoundaries(firstB, secondB)
      earlier == o[1]
      later == o[2]
  IN IF earlier.endLine = later.startLine /\ earlier.endChar = later.startChar
     THEN <<>>
     ELSE <<" ">>

\* null is modelled as the empty text: the only use of the result tests it
\* with !spaceBetween, which does not tell null from ""
getSpaceBetween(d, firstB, secondB) ==
  LET o == orderBoundaries(firstB, secondB)
      earlier == o[1]
      later == o[2]
  IN IF earlier.endLine = later.startLine /\ earlier.endChar = later.startChar
     THEN <<>>
     ELSE RangeText(d, EndOf(earlier), StartOf(later))

\* one editBuilder.replace(range, text): offsets of the ordered range
Replace(d, p, q, text) ==
  [from |-> Min(OffsetAt(d, p), OffsetAt(d, q)),
   to |-> Max(OffsetAt(d, p), OffsetAt(d, q)),
   text |-> text]

TransposeEditsMut(d, firstBoundary, secondBoundary) ==
  LET firstText == BoundaryText(d, firstBoundary)
      secondText == BoundaryText(d, secondBoundary)
      spaceBetween == getSpaceBetween(d, firstBoundary, secondBoundary)
  IN IF spaceBetween = <<>>
     THEN <<Replace(d, StartOf(firstBoundary), EndOf(firstBoundary),
                    secondText),
            Replace(d, StartOf(secondBoundary), EndOf(secondBoundary),
                    firstText)>>
     ELSE <<Replace(d, StartOf(firstBoundary), EndOf(secondBoundary),
                    secondText \o firstText)>>

\* the replace operations that the callback of editor.edit issues
TransposeEdits(d, firstBoundary, secondBoundary) ==
  LET firstText == BoundaryText(d, firstBoundary)
      secondText == BoundaryText(d, secondBoundary)
      spaceBetween == getSpaceBetween(d, firstBoundary, secondBoundary)
  IN IF spaceBetween = <<>>
     THEN <<Replace(d, StartOf(firstBoundary), EndOf(firstBoundary),
                    secondText),
            Replace(d, StartOf(secondBoundary), EndOf(secondBoundary),
                    firstText)>>
     ELSE <<Replace(d, StartOf(firstBoundary), EndOf(secondBoundary),
                    secondText \o spaceBetween \o firstText)>>

\* editor.edit rejects edits whose ranges overlap; touching ranges are allowed
EditsOverlap(edits) ==
  /\ Len(edits) = 2
  /\ LET lo == IF edits[1].from <= edits[2].from THEN edits[1] ELSE edits[2]
         hi == IF edits[1].from <= edits[2].from THEN edits[2] ELSE edits[1]
     IN hi.from < lo.to

ApplyOne(text, e) ==
  SubSeq(text, 1, e.from) \o e.text \o SubSeq(text, e.to + 1, Len(text))

\* the document text after editor.edit has applied the operations
ApplyEdits(d, edits) ==
  LET text == GetText(d)
  IN IF Len(edits) = 1 THEN ApplyOne(text, edits[1])
     ELSE LET lo == IF edits[1].from <= edits[2].from THEN edits[1]
                    ELSE edits[2]
              hi == IF edits[1].from <= edits[2].from THEN edits[2]
                    ELSE edits[1]
          IN ApplyOne(ApplyOne(text, hi), lo)

\* the document after transposeSexpressions
TransposedDoc(d, firstBoundary, secondBoundary) ==
  LET edits == TransposeEdits(d, firstBoundary, secondBoundary)
  IN IF EditsOverlap(edits) THEN d
     ELSE SplitLines(ApplyEdits(d, edits))

-----------------------------------------------------------------------------
(* BaseSexpHandler.findParentSexpression and the boundary comparisons      *)
(* (sexp-navigation/handlers/base-handler); an absent optional boundary is *)
(* NoSexp.                                                                 *)

maxLineSearch == 50

\* the least element of a non-empty set of numbers
LeastOf(S) == CHOOSE x \in S : \A y \in S : x <= y

\* position.isAfterOrEqual(startPos) && position.isBeforeOrEqual(endPos)
boundaryContainsPosition(boundary, position) ==
  /\ IsBeforeOrEqual(StartOf(boundary), position)
  /\ IsBeforeOrEqual(position, EndOf(boundary))

isSameBoundary(boundaryA, boundaryB) ==
  /\ boundaryA.startLine = boundaryB.startLine
  /\ boundaryA.startChar = boundaryB.startChar
  /\ boundaryA.endLine = boundaryB.endLine
  /\ boundaryA.endChar = boundaryB.endChar

\* the size metric with the line span weighted by a unit
calculateBoundarySize(boundary) ==
  IF boundary.startLine = boundary.endLine
  THEN boundary.endChar - boundary.startChar
  ELSE LET lineCount == boundary.endLine - boundary.startLine
       IN (lineCount * 1000) + (boundary.endChar + (1000 - boundary.startChar))

isSmallerBoundary(boundaryA, boundaryB) ==
  calculateBoundarySize(boundaryA) < calculateBoundarySize(boundaryB)

\* the while loop of findParentSexpression: the candidates in push order,
\* from the line of the position upward
RECURSIVE ParentCandidatesLoop(_, _, _, _)
ParentCandidatesLoop(d, position, line, currentBoundary) ==
  IF ~(line >= 0 /\ line >= position.line - maxLineSearch) THEN <<>>
  ELSE LET lineStartPos == Pos(line, 0)
           possibleParent == findForwardSexp(d, lineStartPos)
           pushed ==
             /\ possibleParent # NoSexp
             /\ boundaryContainsPosition(possibleParent, position)
             /\ (currentBoundary = NoSexp
                   \/ ~isSameBoundary(possibleParent, currentBoundary))
       IN (IF pushed THEN <<possibleParent>> ELSE <<>>)
            \o ParentCandidatesLoop(d, position, line - 1, currentBoundary)

\* candidateParents.filter(...) when a current boundary is given
FilterParents(candidateParents, currentBoundary) ==
  IF currentBoundary = NoSexp THEN candidateParents
  ELSE SelectSeq(candidateParents,
                 LAMBDA parent :
                   /\ ~isSmallerBoundary(parent, currentBoundary)
                   /\ ~isSameBoundary(parent, currentBoundary))

\* candidateParents.sort(by size)[0]: the sort is stable, so the first of
\* the candidates of the least size; undefined for an empty array
SmallestFirst(candidateParents) ==
  IF candidateParents = <<>> THEN NoSexp
  ELSE candidateParents[
         LeastOf({i \in 1..Len(candidateParents) :
            \A j \in 1..Len(candidateParents) :
              calculateBoundarySize(candidateParents[i])
                <= calculateBoundarySize(candidateParents[j])})]

findParentSexpression(d, position, currentBoundary) ==
  LET candidateParents ==
        ParentCandidatesLoop(d, position, position.line, currentBoundary)
  IN IF Len(candidateParents) > 0
     THEN SmallestFirst(FilterParents(candidateParents, currentBoundary))
     ELSE NoSexp

\* the while loop of SexpTranspositionHandlers.findPreviousSibling and the
\* test after it
RECURSIVE PreviousSiblingLoop(_, _, _, _, _)
PreviousSiblingLoop(d, sibling, previousSibling, currentBoundary, parentBoundary) ==
  IF /\ sibling # NoSexp
     /\ ~isSameBoundary(sibling, currentBoundary)
     /\ boundaryContainsPosition(parentBoundary, EndOf(sibling))
  THEN PreviousSiblingLoop(d, findForwardSexp(d, EndOf(sibling)), sibling,
                           currentBoundary, parentBoundary)
  ELSE IF sibling # NoSexp /\ isSameBoundary(sibling, currentBoundary)
       THEN previousSibling
       ELSE NoSexp

\* the search that starts one column inside the parent
findPreviousSiblingMut(d, currentBoundary, parentBoundary) ==
  PreviousSiblingLoop(d, findForwardSexp(d, StartOf(parentBoundary)), parentBoundary,
                      currentBoundary, parentBoundary)

findPreviousSibling(d, currentBoundary, parentBoundary) ==
  PreviousSiblingLoop(d, findForwardSexp(d, StartOf(parentBoundary)), NoSexp,
                      currentBoundary, parentBoundary)

-----------------------------------------------------------------------------
(* The handlers of the class SexpNavigationHandlers that precedes the      *)
(* split into base, selection and transposition handlers                   *)
(* (sexp-navigation/handlers.ts, first class).                             *)

\* the opening delimiters of the document in line and column order
OpenerPositions(d) ==
  LET text == GetText(d)
      offs == {o \in 0..(Len(text) - 1) : CharAt(text, o) \in {"(", "[", "{"}}
      ordered[k \in 0..Cardinality(offs)] ==
        IF k = 0 THEN <<>>
        ELSE Append(ordered[k - 1],
                    CHOOSE o \in offs :
                      Cardinality({q \in offs : q < o}) = k - 1)
  IN [i \in 1..Cardinality(offs) |->
        PositionAt(d, ordered[Cardinality(offs)][i])]

\* boundaryRange.contains(position)
RangeContains(boundary, position) ==
  /\ IsBeforeOrEqual(StartOf(boundary), position)
  /\ IsBeforeOrEqual(position, EndOf(boundary))

LegacyCalculateBoundarySize(boundary) ==
  LET lineSize == (boundary.endLine - boundary.startLine) * 1000
      charSize == boundary.endChar - boundary.startChar
  IN lineSize + charSize

LegacyIsSmallerBoundary(boundaryA, boundaryB) ==
  LegacyCalculateBoundarySize(boundaryA) < LegacyCalculateBoundarySize(boundaryB)

\* the potential parents in push order
LegacyPotentialParents(d, position) ==
  LET all == [i \in 1..Len(OpenerPositions(d)) |->
                findForwardSexp(d, OpenerPositions(d)[i])]
  IN SelectSeq(all, LAMBDA boundary :
                      boundary # NoSexp /\ RangeContains(boundary, position))

\* the filter applied when a current boundary is given
LegacyFilterParents(potentialParents, currentBoundary) ==
  IF currentBoundary = NoSexp THEN potentialParents
  ELSE SelectSeq(potentialParents,
         LAMBDA parent :
           /\ \/ parent.startLine < currentBoundary.startLine
              \/ /\ parent.startLine = currentBoundary.startLine
                 /\ parent.startChar <= currentBoundary.startChar
           /\ \/ parent.endLine > currentBoundary.endLine
              \/ /\ parent.endLine = currentBoundary.endLine
                 /\ parent.endChar >= currentBoundary.endChar)

\* the loop that keeps the smallest parent seen so far
RECURSIVE LegacySmallestLoop(_, _, _)
LegacySmallestLoop(potentialParents, i, smallestParent) ==
  IF i > Len(potentialParents) THEN smallestParent
  ELSE LegacySmallestLoop(
         potentialParents, i + 1,
         IF smallestParent = NoSexp
              \/ LegacyIsSmallerBoundary(potentialParents[i], smallestParent)
         THEN potentialParents[i] ELSE smallestParent)

LegacyFindParentSexpression(d, position, currentBoundary) ==
  LegacySmallestLoop(
    LegacyFilterParents(LegacyPotentialParents(d, position), currentBoundary),
    1, NoSexp)

\* the while loop of the earlier findPreviousSibling
RECURSIVE LegacyPreviousSiblingLoop(_, _, _, _)
LegacyPreviousSiblingLoop(d, searchPos, lastSibling, currentBoundary) ==
  IF ~IsBefore(searchPos, StartOf(currentBoundary)) THEN lastSibling
  ELSE LET siblingBoundary == findForwardSexp(d, searchPos)
       IN IF siblingBoundary = NoSexp THEN lastSibling
          ELSE LET tracked ==
                     IF IsBefore(EndOf(siblingBoundary),
                                 StartOf(currentBoundary))
                     THEN siblingBoundary ELSE lastSibling
               IN IF EndOf(siblingBoundary) = StartOf(currentBoundary)
                  THEN tracked
                  ELSE LegacyPreviousSiblingLoop(d, EndOf(siblingBoundary),
                                                 tracked, currentBoundary)

LegacyFindPreviousSibling(d, currentBoundary, parentBoundary) ==
  LegacyPreviousSiblingLoop(
    d, Pos(parentBoundary.startLine, parentBoundary.startChar + 1), NoSexp,
    currentBoundary)

-----------------------------------------------------------------------------
(* Regular expressions of the scope finders, as position sets: a set holds *)
(* the one-based indexes at which the rest of the pattern may continue;    *)
(* test() succeeds when the set after the last element is not empty.       *)

\* \s, restricted to the white space a line can hold
SpaceClass == {" ", "\t"}

IsSpace(ch) == ch \in SpaceClass

\* \w
WordClass == Letters \cup Digits \cup {"_"}

\* [\w_$]
WordOrDollarClass == WordClass \cup {"$"}

RECURSIVE TrimLeft(_)
TrimLeft(t) ==
  IF Len(t) > 0 /\ IsSpace(t[1]) THEN TrimLeft(Tail(t)) ELSE t

RECURSIVE TrimRight(_)
TrimRight(t) ==
  IF Len(t) > 0 /\ IsSpace(t[Len(t)])
  THEN TrimRight(SubSeq(t, 1, Len(t) - 1)) ELSE t

\* String.prototype.trim
Trim(t) == TrimRight(TrimLeft(t))

\* String.prototype.startsWith
StartsWith(t, lit) == Len(t) >= Len(lit) /\ SubSeq(t, 1, Len(lit)) = lit

\* String.prototype.includes for a single character
Includes(t, ch) == \E i \in 1..Len(t) : t[i] = ch

Lit(t, I, lit) ==
  {i + Len(lit) : i \in {j \in I : /\ j + Len(lit) - 1 <= Len(t)
                                    /\ SubSeq(t, j, j + Len(lit) - 1) = lit}}

\* cls*, for a character class cls
StarOf(t, I, cls) ==
  {k \in 1..(Len(t) + 1) :
     \E i \in I : i <= k /\ \A j \in i..(k - 1) : t[j] \in cls}

\* cls+
PlusOf(t, I, cls) ==
  {k \in 1..(Len(t) + 1) :
     \E i \in I : i < k /\ \A j \in i..(k - 1) : t[j] \in cls}

AnyStar(t, I) == {k \in 1..(Len(t) + 1) : \E i \in I : i <= k}

KwAsync == <<"a", "s", "y", "n", "c">>

KwFunction == <<"f", "u", "n", "c", "t", "i", "o", "n">>

KwConst == <<"c", "o", "n", "s", "t">>

KwLet == <<"l", "e", "t">>

KwVar == <<"v", "a", "r">>

KwExport == <<"e", "x", "p", "o", "r", "t">>

KwDeclare == <<"d", "e", "c", "l", "a", "r", "e">>

KwAbstract == <<"a", "b", "s", "t", "r", "a", "c", "t">>

KwClass == <<"c", "l", "a", "s", "s">>

KwInterface == <<"i", "n", "t", "e", "r", "f", "a", "c", "e">>

KwEnum == <<"e", "n", "u", "m">>

KwDef == <<"d", "e", "f">>

\* (kw\s+)? continuing from the positions I
OptKw(t, I, kw) == I \cup PlusOf(t, Lit(t, I, kw), SpaceClass)

\* \(\s*.*\s*\)\s* continuing from the positions I
ParamList(t, I) ==
  StarOf(t, Lit(t, StarOf(t, AnyStar(t, StarOf(t, Lit(t, I, <<"(">>),
                                                SpaceClass)), SpaceClass),
                   <<")">>), SpaceClass)

\* /^(async\s+function|function)\s+\w+\s*\(/
TsFunctionKeyword(t) ==
  LET kw == Lit(t, {1}, KwFunction) \cup
            Lit(t, PlusOf(t, Lit(t, {1}, KwAsync), SpaceClass), KwFunction)
  IN Lit(t, StarOf(t, PlusOf(t, PlusOf(t, kw, SpaceClass), WordClass), SpaceClass),
         <<"(">>) # {}

\* /^(async\s+)?(\w+)\s*\(\s*.*\s*\)\s*(\{|=>)/
TsMethod(t) ==
  LET name == StarOf(t, PlusOf(t, OptKw(t, {1}, KwAsync), WordClass), SpaceClass)
      params == ParamList(t, name)
  IN Lit(t, params, <<"{">>) \cup Lit(t, params, <<"=", ">">>) # {}

\* /^(const|let|var)\s+\w+\s*=\s*(async\s*)?\(\s*.*\s*\)\s*=>/
TsArrow(t) ==
  LET kw == Lit(t, {1}, KwConst) \cup Lit(t, {1}, KwLet)
              \cup Lit(t, {1}, KwVar)
      eq == StarOf(t, Lit(t, StarOf(t, PlusOf(t, PlusOf(t, kw, SpaceClass),
                                               WordClass), SpaceClass),
                          <<"=">>), SpaceClass)
      async == eq \cup StarOf(t, Lit(t, eq, KwAsync), SpaceClass)
  IN Lit(t, ParamList(t, async), <<"=", ">">>) # {}

\* /^(async\s+)?[\w_$]+\s*(\(|\<)/.test(lineText) && lineText.includes('(')
TsCall(t) ==
  LET name == StarOf(t, PlusOf(t, OptKw(t, {1}, KwAsync), WordOrDollarClass),
                     SpaceClass)
  IN /\ Lit(t, name, <<"(">>) \cup Lit(t, name, <<"<">>) # {}
     /\ Includes(t, "(")

\* isFunctionDef of TypeScriptScopeFinder.findContainingFunction
TsIsFunctionDef(t) ==
  TsFunctionKeyword(t) \/ TsMethod(t) \/ TsArrow(t) \/ TsCall(t)

\* /^(export\s+)?(declare\s+)?enum\s+\w+/
TsIsEnumDef(t) ==
  PlusOf(t, PlusOf(t, Lit(t, OptKw(t, OptKw(t, {1}, KwExport), KwDeclare),
                          KwEnum), SpaceClass), WordClass) # {}

\* /^(export\s+)?(declare\s+)?interface\s+\w+/
TsIsInterfaceDef(t) ==
  PlusOf(t, PlusOf(t, Lit(t, OptKw(t, OptKw(t, {1}, KwExport), KwDeclare),
                          KwInterface), SpaceClass), WordClass) # {}

\* the three alternatives of the class test; the second one (a decorator on
\* the line above) repeats the first pattern, so it adds no line
TsIsClassDef(t) ==
  \/ PlusOf(t, PlusOf(t, Lit(t, OptKw(t, OptKw(t, {1}, KwExport), KwAbstract),
                             KwClass), SpaceClass), WordClass) # {}
  \/ PlusOf(t, PlusOf(t, Lit(t, OptKw(t, OptKw(t, OptKw(t, {1}, KwExport),
                                               KwDeclare), KwAbstract),
                             KwClass), SpaceClass), WordClass) # {}

-----------------------------------------------------------------------------
(* TypeScriptScopeFinder (scope-deletion/finders/typescript-finder).       *)

\* null, for a line number
NoLine == -1

\* the ScopeInfo results; the name field, which extractScopeName fills from
\* the head line and which no control flow reads, is left out
NoScope == [scopeType |-> "none", startLine |-> -1]

ScopeInfo(type, line) == [scopeType |-> type, startLine |-> line]

\* what findScopeBoundary does at the closing bracket that balances the count
TsBalancedAtMut(bracketCount, foundOpeningBracket) ==
  foundOpeningBracket

\* foundOpeningBracket && bracketCount === 0
TsBalancedAt(bracketCount, foundOpeningBracket) ==
  foundOpeningBracket /\ bracketCount = 0

\* both for-loops of findScopeBoundary, from character char of line i on
RECURSIVE TsBoundaryLoop(_, _, _, _, _, _)
TsBoundaryLoop(d, i, char, currentLine, bracketCount, foundOpeningBracket) ==
  IF i >= LineCount(d) THEN NoLine
  ELSE IF char >= Len(LineText(d, i))
       THEN TsBoundaryLoop(d, i + 1, 0, currentLine, bracketCount,
                           foundOpeningBracket)
       ELSE LET ch == CharAt(LineText(d, i), char)
            IN IF ch = "{"
               THEN TsBoundaryLoop(d, i, char + 1, currentLine,
                                   bracketCount + 1, TRUE)
               ELSE IF ch = "}"
                    THEN IF TsBalancedAt(bracketCount - 1, foundOpeningBracket)
                         THEN IF i >= currentLine THEN i ELSE NoLine
                         ELSE TsBoundaryLoop(d, i, char + 1, currentLine,
                                             bracketCount - 1,
                                             foundOpeningBracket)
                    ELSE TsBoundaryLoop(d, i, char + 1, currentLine,
                                        bracketCount, foundOpeningBracket)

\* findScopeBoundary with the end-of-buffer fallback of an indentation scope
TsFindScopeBoundaryMut(d, startLine, currentLine) ==
  LET end == TsBoundaryLoop(d, startLine, 0, currentLine, 0, FALSE)
  IN IF end = NoLine THEN LineCount(d) - 1 ELSE end

TsFindScopeBoundary(d, startLine, currentLine) ==
  TsBoundaryLoop(d, startLine, 0, currentLine, 0, FALSE)

\* the upward loop of findContainingFunction
RECURSIVE TsContainingFunctionLoop(_, _, _)
TsContainingFunctionLoop(d, line, currentLine) ==
  IF line < 0 THEN NoScope
  ELSE IF /\ TsIsFunctionDef(Trim(LineText(d, line)))
          /\ TsFindScopeBoundary(d, line, currentLine) # NoLine
       THEN ScopeInfo("function", line)
       ELSE TsContainingFunctionLoop(d, line - 1, currentLine)

TsFindContainingFunctionMut(d, position) ==
  TsContainingFunctionLoop(d, position.line, 0)

TsFindContainingFunction(d, position) ==
  TsContainingFunctionLoop(d, position.line, position.line)

\* the upward loop of findContainingClass: enum, interface, class in turn
RECURSIVE TsContainingClassLoop(_, _, _)
TsContainingClassLoop(d, line, currentLine) ==
  IF line < 0 THEN NoScope
  ELSE LET lineText == Trim(LineText(d, line))
           contains == TsFindScopeBoundary(d, line, currentLine) # NoLine
       IN IF TsIsEnumDef(lineText) /\ contains
          THEN ScopeInfo("enum", line)
          ELSE IF TsIsInterfaceDef(lineText) /\ contains
               THEN ScopeInfo("interface", line)
               ELSE IF TsIsClassDef(lineText) /\ contains
                    THEN ScopeInfo("class", line)
                    ELSE TsContainingClassLoop(d, line - 1, currentLine)

TsFindContainingClass(d, position) ==
  TsContainingClassLoop(d, position.line, position.line)

-----------------------------------------------------------------------------
(* PythonScopeFinder (scope-deletion/finders/python-finder).               *)

\* line.match(/^(\s*)/)[1]
RECURSIVE getIndentation(_)
getIndentation(t) ==
  IF Len(t) > 0 /\ IsSpace(t[1])
  THEN <<t[1]>> \o getIndentation(Tail(t))
  ELSE <<>>

\* /^\s*def\s+\w+\s*\(/
PyIsFunctionDef(t) ==
  Lit(t, StarOf(t, PlusOf(t, PlusOf(t, Lit(t, StarOf(t, {1}, SpaceClass), KwDef),
                                    SpaceClass), WordClass), SpaceClass),
      <<"(">>) # {}

\* /^\s*class\s+\w+/
PyIsClassDef(t) ==
  PlusOf(t, PlusOf(t, Lit(t, StarOf(t, {1}, SpaceClass), KwClass), SpaceClass),
         WordClass) # {}

\* lineText.trim() === '' || lineText.trim().startsWith('#')
PySkipped(t) == Trim(t) = <<>> \/ StartsWith(Trim(t), <<"#">>)

\* the while loop of findScopeBoundary
RECURSIVE PyBoundaryLoop(_, _, _, _)
PyBoundaryLoop(d, line, currentLine, baseIndent) ==
  IF line >= LineCount(d)
  THEN IF currentLine <= LineCount(d) - 1 THEN LineCount(d) - 1 ELSE NoLine
  ELSE LET lineText == LineText(d, line)
       IN IF PySkipped(lineText)
          THEN PyBoundaryLoop(d, line + 1, currentLine, baseIndent)
          ELSE IF /\ Len(getIndentation(lineText)) <= Len(baseIndent)
                  /\ Trim(lineText) # <<>>
               THEN LET endLine == line - 1
                    IN IF currentLine <= endLine THEN endLine ELSE NoLine
               ELSE PyBoundaryLoop(d, line + 1, currentLine, baseIndent)

\* baseIndent is optional: an absent or empty one is read off startLine
PyFindScopeBoundary(d, startLine, currentLine, baseIndent) ==
  LET base == IF baseIndent = <<>>
              THEN getIndentation(LineText(d, startLine))
              ELSE baseIndent
  IN IF currentLine < startLine THEN NoLine
     ELSE PyBoundaryLoop(d, startLine + 1, currentLine, base)

RECURSIVE PyContainingFunctionLoop(_, _, _)
PyContainingFunctionLoop(d, line, currentLine) ==
  IF line < 0 THEN NoScope
  ELSE LET lineText == LineText(d, line)
       IN IF /\ PyIsFunctionDef(lineText)
             /\ PyFindScopeBoundary(d, line, currentLine,
                                    getIndentation(lineText)) # NoLine
          THEN ScopeInfo("function", line)
          ELSE PyContainingFunctionLoop(d, line - 1, currentLine)

PyFindContainingFunction(d, position) ==
  PyContainingFunctionLoop(d, position.line, position.line)

RECURSIVE PyContainingClassLoop(_, _, _)
PyContainingClassLoop(d, line, currentLine) ==
  IF line < 0 THEN NoScope
  ELSE LET lineText == LineText(d, line)
       IN IF /\ PyIsClassDef(lineText)
             /\ PyFindScopeBoundary(d, line, currentLine,
                                    getIndentation(lineText)) # NoLine
          THEN ScopeInfo("class", line)
          ELSE PyContainingClassLoop(d, line - 1, currentLine)

PyFindContainingClass(d, position) ==
  PyContainingClassLoop(d, position.line, position.line)

\* the finder's method, by the languageId of the finder
findScopeBoundary(l, d, startLine, currentLine) ==
  IF l = "python" THEN PyFindScopeBoundary(d, startLine, currentLine, <<>>)
  ELSE TsFindScopeBoundary(d, startLine, currentLine)

findContainingFunction(l, d, position) ==
  IF l = "python" THEN PyFindContainingFunction(d, position)
  ELSE TsFindContainingFunction(d, position)

findContainingClass(l, d, position) ==
  IF l = "python" THEN PyFindContainingClass(d, position)
  ELSE TsFindContainingClass(d, position)

-----------------------------------------------------------------------------
(* ScopeFinderFactory and ScopeNavigationHandlers                          *)
(* (scope-deletion/finders/index, scope-navigation/handlers).              *)

\* the language ids that ScopeFinderFactory.initialize registers
RegisteredLanguages ==
  {"typescript", "javascript", "javascriptreact", "typescriptreact"}

\* the languageId of the finder that getFinder returns: each registered id
\* maps to the TypeScript finder, which is the default finder as well
getFinder(languageId) ==
  IF languageId \in RegisteredLanguages THEN "typescript" ELSE "typescript"

isCommentLine(line) ==
  LET trimmedLine == Trim(line)
  IN \/ StartsWith(trimmedLine, <<"/", "/">>)
     \/ StartsWith(trimmedLine, <<"/", "*">>)
     \/ StartsWith(trimmedLine, <<"*">>)
     \/ StartsWith(trimmedLine, <<"#">>)

\* the loop of findAllFunctions, from line i on
RECURSIVE findAllFunctionsLoop(_, _, _)
findAllFunctionsLoop(d, scopeFinder, i) ==
  IF i >= LineCount(d) THEN <<>>
  ELSE LET lineText == LineText(d, i)
           functionInfo == findContainingFunction(scopeFinder, d, Pos(i, 0))
           pushed == /\ ~(Trim(lineText) = <<>> \/ isCommentLine(lineText))
                     /\ functionInfo # NoScope
                     /\ functionInfo.startLine = i
       IN (IF pushed THEN <<functionInfo>> ELSE <<>>)
            \o findAllFunctionsLoop(d, scopeFinder, i + 1)

findAllFunctions(d, scopeFinder) == findAllFunctionsLoop(d, scopeFinder, 0)

\* the loop of findAllClasses, from line i on
RECURSIVE findAllClassesLoop(_, _, _)
findAllClassesLoop(d, scopeFinder, i) ==
  IF i >= LineCount(d) THEN <<>>
  ELSE LET lineText == LineText(d, i)
           classInfo == findContainingClass(scopeFinder, d, Pos(i, 0))
           pushed == /\ ~(Trim(lineText) = <<>> \/ isCommentLine(lineText))
                     /\ classInfo # NoScope
                     /\ classInfo.startLine = i
       IN (IF pushed THEN <<classInfo>> ELSE <<>>)
            \o findAllClassesLoop(d, scopeFinder, i + 1)

findAllClasses(d, scopeFinder) == findAllClassesLoop(d, scopeFinder, 0)

\* scopes.sort((a, b) => a.startLine - b.startLine): a stable sort, written
\* as the elements of each start line, in their order, from line l on
RECURSIVE SortFromLine(_, _)
SortFromLine(scopes, l) ==
  IF \A i \in 1..Len(scopes) : scopes[i].startLine < l THEN <<>>
  ELSE LET OnLine(s) == s.startLine = l
       IN SelectSeq(scopes, OnLine) \o SortFromLine(scopes, l + 1)

SortByStartLine(scopes) == SortFromLine(scopes, 0)

\* the scopes array of navigateToScope after the sort
NavigationScopes(d, languageId, scopeType) ==
  LET scopeFinder == getFinder(languageId)
      allFunctions == IF scopeType \in {"function", "any"}
                      THEN findAllFunctions(d, scopeFinder) ELSE <<>>
      allClasses == IF scopeType \in {"class", "any"}
                    THEN findAllClasses(d, scopeFinder) ELSE <<>>
  IN SortByStartLine(allFunctions \o allClasses)

NavigationTargetMut(scopes, position, direction, wrap) ==
  LET hits == IF direction = "forward"
              THEN {i \in 1..Len(scopes) :
                      IsBefore(position, Pos(scopes[i].startLine, 0))}
              ELSE {i \in 1..Len(scopes) :
                      IsBefore(Pos(scopes[i].startLine, 0), position)}
  IN IF scopes = <<>> THEN NoScope
     ELSE IF hits # {}
          THEN IF direction = "forward" THEN scopes[LeastOf(hits)]
               ELSE scopes[CHOOSE i \in hits : \A j \in hits : j <= i]
          ELSE IF wrap
               THEN IF direction = "forward" THEN scopes[Len(scopes)]
                    ELSE scopes[1]
               ELSE NoScope

\* the branches of navigateToScope over its sorted scopes array: the
\* targetScopeInfo of the result, NoScope when success is false
NavigationTarget(scopes, position, direction, wrap) ==
  LET hits == IF direction = "forward"
              THEN {i \in 1..Len(scopes) :
                      IsBefore(position, Pos(scopes[i].startLine, 0))}
              ELSE {i \in 1..Len(scopes) :
                      IsBefore(Pos(scopes[i].startLine, 0), position)}
  IN IF scopes = <<>> THEN NoScope
     ELSE IF hits # {}
          THEN IF direction = "forward" THEN scopes[LeastOf(hits)]
               ELSE scopes[CHOOSE i \in hits : \A j \in hits : j <= i]
          ELSE IF wrap
               THEN IF direction = "forward" THEN scopes[1]
                    ELSE scopes[Len(scopes)]
               ELSE NoScope

\* navigateToScope: the scopes array is built once, then searched; the
\* target position is column 0 of the target's start line
navigateToScope(d, position, languageId, direction, scopeType, wrap) ==
  CHOOSE target \in
      {NavigationTarget(scopes, position, direction, wrap) :
         scopes \in {NavigationScopes(d, languageId, scopeType)}} : TRUE

-----------------------------------------------------------------------------
-----------------------------------------------------------------------------
(* ScopeFinderFactory (scope-deletion/finders/index): the map finders from *)
(* language ids to finders, and the default finder.  A finder is named by  *)
(* its languageId.                                                         *)

LanguageIds ==
  {"typescript", "javascript", "javascriptreact", "typescriptreact",
   "python", "plaintext"}

\* the finder classes of the repository, by languageId
Finders == {"typescript", "python"}

NoFinder == "none"

\* the static fields: finders = new Map(), defaultFinder = new
\* TypeScriptScopeFinder(); initialized records that initialize() has run
NewFactory ==
  [finders |-> [id \in LanguageIds |-> NoFinder],
   defaultFinder |-> "typescript",
   initialized |-> FALSE]

\* this.finders.set(finder.languageId, finder)
registerFinder(f, finder) ==
  [f EXCEPT !.finders = [@ EXCEPT ![finder] = finder]]

\* registerFinder(tsOrJsFinder) and the three finders.set calls
initialize(f) ==
  LET tsOrJsFinder == "typescript"
      registered == registerFinder(f, tsOrJsFinder)
  IN [registered EXCEPT
        !.finders = [id \in LanguageIds |->
                       IF id \in {"javascript", "javascriptreact",
                                  "typescriptreact"}
                       THEN tsOrJsFinder ELSE @[id]],
        !.initialized = TRUE]

\* this.finders.get(languageId) || this.defaultFinder
FactoryGetFinder(f, languageId) ==
  IF f.finders[languageId] # NoFinder THEN f.finders[languageId]
  ELSE f.defaultFinder

-----------------------------------------------------------------------------
(* The objects of the extension next to the editor: the selection of the  *)
(* editor, the ScopeDeletionFeature, the ScopeFinderFactory, the           *)
(* CommandRegistry, and what the last call on one of them returned.        *)

services == <<selection, feature, factory, registry, returned>>

NoResult == "none"

\* the selection is empty at the cursor
NoSelection == [anchor |-> NoPos, active |-> NoPos]

\* the awaited dialog of a scope command: none is open
NoPending == [kind |-> "none", startLine |-> -1, scopeType |-> "none", originalSelections |-> NoSelection]

\* the ScopeDeletionFeature after its constructor: the status bar item is
\* created and not shown, nothing is subscribed, no timer is set.
\* disposables is the list of FeatureModule, as the set of what it holds;
\* lifecycle records the last of activate() and deactivate()
NewFeature ==
  [statusBarVisible |-> FALSE,
   statusBarDisposed |-> FALSE,
   currentScopeInfo |-> NoScope,
   selectionChangeDisposable |-> FALSE,
   activeEditorListener |-> FALSE,
   selectionChangeTimeout |-> FALSE,
   disposables |-> {},
   lifecycle |-> "constructed",
   pending |-> NoPending]

\* the command ids registered with the CommandRegistry
CommandIds == {"extension.deleteCurrentScope", "extension.selectCurrentScope"}

\* no disposable: the value of Map.get for an id that is not a key
NoDisposable == 0

\* the disposables that registrations create, numbered in creation order
Disposables == 1..MaxRegistrations

\* the CommandRegistry after construction: commands = new Map().  created
\* counts the registrations made, lastRegistered is the disposable of the
\* most recent registration of each id, dropped the disposables that a
\* call replaced or removed, disposeCalls the dispose() calls each
\* disposable has received, calledId and wasHeld the id of the last call and
\* whether commands had it before the call
NewRegistry ==
  [commands |-> [id \in CommandIds |-> NoDisposable],
   created |-> 0,
   lastRegistered |-> [id \in CommandIds |-> NoDisposable],
   dropped |-> {},
   disposeCalls |-> [n \in Disposables |-> 0],
   calledId |-> "none",
   wasHeld |-> FALSE]

InitServices ==
  /\ selection = NoSelection
  /\ feature = NewFeature
  /\ factory = NewFactory
  /\ registry = NewRegistry
  /\ returned = NoResult

(* The state: the document and the cursor of the active editor, and the    *)
(* last call made on it (op), the position it was made at (startPos) and   *)
(* what it returned.  A call clears the results of the calls before it.    *)

Cleared ==
  [pair |-> NoPair, sexp |-> NoSexp, scopeStart |-> NoLine,
   scopeEnd |-> NoLine, scopeInfo |-> NoScope, first |-> NoSexp,
   second |-> NoSexp, editOps |-> <<>>, wrapAround |-> FALSE]

\* the variables take the fields of r and keep startPos = the cursor before
Results(r) ==
  /\ startPos' = cursor
  /\ pair' = r.pair
  /\ sexp' = r.sexp
  /\ scopeStart' = r.scopeStart
  /\ scopeEnd' = r.scopeEnd
  /\ scopeInfo' = r.scopeInfo
  /\ first' = r.first
  /\ second' = r.second
  /\ editOps' = r.editOps
  /\ wrapAround' = r.wrapAround

\* a call on the editor alone
Returns(r) ==
  /\ Results(r)
  /\ UNCHANGED services

InitWith(docs, langs) ==
  /\ lang \in langs
  /\ doc \in docs
  /\ cursor \in ValidPositions(doc)
  /\ op = "init"
  /\ startPos = cursor
  /\ orig = doc
  /\ pair = NoPair
  /\ sexp = NoSexp
  /\ scopeStart = NoLine
  /\ scopeEnd = NoLine
  /\ scopeInfo = NoScope
  /\ first = NoSexp
  /\ second = NoSexp
  /\ editOps = <<>>
  /\ wrapAround = FALSE
  /\ InitServices

-----------------------------------------------------------------------------
(* Bracket pair finder: documents over braces, a letter and the line break *)

BracketAlphabet == {"{", "}", "x", NL}

BracketDocs == {SplitLines(t) : t \in SeqsUpTo(BracketAlphabet, MaxBracketLen)}

InitBracket == InitWith(BracketDocs, {"typescript"})

FindBracketPairContainingCursor ==
  /\ op' = "containingPair"
  /\ Returns([Cleared EXCEPT
                !.pair = findBracketPairContainingCursor(
                           doc, cursor.line, cursor.character)])
  /\ UNCHANGED <<doc, cursor, lang, orig>>

FindNextBracketPair ==
  /\ op' = "nextPair"
  /\ Returns([Cleared EXCEPT
                !.pair = findNextBracketPair(doc, cursor.line,
                                             cursor.character)])
  /\ UNCHANGED <<doc, cursor, lang, orig>>

NextBracket == FindBracketPairContainingCursor \/ FindNextBracketPair

SpecBracket == InitBracket /\ [][NextBracket]_vars

-----------------------------------------------------------------------------
(* Bracket pairs, stated on the text of the document without the scans.    *)

CountIn(text, a, b, ch) == Cardinality({i \in a..b : text[i] = ch})

\* <<o, k>>: a `{` at index o and the first `}` after it at which the braces
\* from o on are balanced (one-based indexes into the text)
BracePairs(text) ==
  {w \in (1..Len(text)) \X (1..Len(text)) :
     /\ w[1] < w[2]
     /\ text[w[1]] = OPEN_BRACE
     /\ text[w[2]] = CLOSE_BRACE
     /\ CountIn(text, w[1], w[2], OPEN_BRACE)
          = CountIn(text, w[1], w[2], CLOSE_BRACE)
     /\ \A j \in (w[1] + 1)..(w[2] - 1) :
          CountIn(text, w[1], j, OPEN_BRACE)
            # CountIn(text, w[1], j, CLOSE_BRACE)}

BracesBalanced(text) ==
  /\ CountIn(text, 1, Len(text), OPEN_BRACE)
       = CountIn(text, 1, Len(text), CLOSE_BRACE)
  /\ \A j \in 1..Len(text) :
       CountIn(text, 1, j, OPEN_BRACE) >= CountIn(text, 1, j, CLOSE_BRACE)

\* the cursor position c (a zero-based offset) lies after the opening
\* bracket and before the closing bracket of w
StrictlyInside(c, w) == (w[1] - 1) < c /\ c < (w[2] - 1)

EnclosingPairs(d, p) ==
  {w \in BracePairs(GetText(d)) : StrictlyInside(OffsetAt(d, p), w)}

PairOf(d, w) ==
  LET o == PositionAt(d, w[1] - 1)
      k == PositionAt(d, w[2] - 1)
  IN [openBracketLine |-> o.line, openBracketChar |-> o.character,
      closeBracketLine |-> k.line, closeBracketChar |-> k.character]

InnermostEnclosing(d, p) ==
  CHOOSE w \in EnclosingPairs(d, p) :
    \A v \in EnclosingPairs(d, p) : v[1] <= w[1]

\* C1: in a document whose braces are balanced, containingPair at a cursor
\* strictly between a `{` and its matching `}` returns the innermost pair
\* that strictly encloses the cursor.
C1_ContainingPairIsInnermost ==
  (/\ op = "containingPair"
   /\ BracesBalanced(GetText(doc))
   /\ EnclosingPairs(doc, startPos) # {})
  => pair = PairOf(doc, InnermostEnclosing(doc, startPos))

\* C8: at a cursor that no bracket pair strictly encloses, containingPair
\* returns NotFound, whether or not the braces of the document are balanced.
C8_OutsidePairNotFound ==
  (op = "containingPair" /\ EnclosingPairs(doc, startPos) = {})
  => pair = NoPair

C8_Witness ==
  /\ op = "containingPair"
  /\ EnclosingPairs(doc, startPos) = {}
  /\ BracePairs(GetText(doc)) # {}
  /\ ~BracesBalanced(GetText(doc))
  /\ pair = NoPair

-----------------------------------------------------------------------------
(* S-expression navigation: handleForwardSexp and handleBackwardSexp       *)
(* (sexp-navigation/handlers.ts) on documents over two delimiter types, a  *)
(* letter and the line break, and on the documents of the scenarios.       *)

SexpAlphabet == {"(", ")", "[", "]", "a", NL}

SexpScenarioDocs ==
  { <<<<"(", "a", " ", "(", "b", ")", " ", "c", ")">>>>,
    <<<<"(", "{", "a", ")", "}">>>>,
    <<<<"{", "(", "[", "}", "]">>, <<"a", "$", "_", "1", " ", "b">>>> }

SexpDocs ==
  {SplitLines(t) : t \in SeqsUpTo(SexpAlphabet, MaxSexpLen)}
    \cup SexpScenarioDocs

InitSexp == InitWith(SexpDocs, {"typescript"})

HandleForwardSexpMut ==
  \E sexpBoundary \in {findForwardSexp(doc, cursor)} :
     /\ op' = "forwardSexp"
     /\ Returns([Cleared EXCEPT !.sexp = sexpBoundary])
     /\ cursor' = IF sexpBoundary # NoSexp THEN StartOf(sexpBoundary)
                  ELSE cursor
     /\ UNCHANGED <<doc, lang, orig>>

HandleForwardSexp ==
  \E sexpBoundary \in {findForwardSexp(doc, cursor)} :
     /\ op' = "forwardSexp"
     /\ Returns([Cleared EXCEPT !.sexp = sexpBoundary])
     /\ cursor' = IF sexpBoundary # NoSexp THEN EndOf(sexpBoundary)
                  ELSE cursor
     /\ UNCHANGED <<doc, lang, orig>>

HandleBackwardSexp ==
  \E sexpBoundary \in {findBackwardSexp(doc, cursor)} :
     /\ op' = "backwardSexp"
     /\ Returns([Cleared EXCEPT !.sexp = sexpBoundary])
     /\ cursor' = IF sexpBoundary # NoSexp THEN StartOf(sexpBoundary)
                  ELSE cursor
     /\ UNCHANGED <<doc, lang, orig>>

NextSexp == HandleForwardSexp \/ HandleBackwardSexp

SpecSexp == InitSexp /\ [][NextSexp]_vars

-----------------------------------------------------------------------------
(* Units, stated on the text of the document without the scans.            *)

\* the character at the zero-based offset o
At(text, o) == CharAt(text, o)

\* the zero-based offsets k > o of the closers that balance the opener at o,
\* counting the delimiters of the type of the opener only
BalancedCloses(text, o) ==
  {k \in (o + 1)..(Len(text) - 1) :
     /\ At(text, k) = matchingPairs(At(text, o))
     /\ CountIn(text, o + 1, k + 1, At(text, o))
          = CountIn(text, o + 1, k + 1, matchingPairs(At(text, o)))}

\* the zero-based offsets j < k of the openers that balance the closer at k
BalancedOpens(text, k) ==
  {j \in 0..(k - 1) :
     /\ At(text, j) = matchingPairs(At(text, k))
     /\ CountIn(text, j + 1, k + 1, At(text, k))
          = CountIn(text, j + 1, k + 1, matchingPairs(At(text, k)))}

SetMin(S) == CHOOSE x \in S : \A y \in S : x <= y

SetMax(S) == CHOOSE x \in S : \A y \in S : y <= x

\* the first offset at or after o where a forward scan meets an opening
\* delimiter or an identifier character; Len(text) when there is none
FirstMetForward(text, o) ==
  SetMin({i \in o..Len(text) :
            i = Len(text) \/ At(text, i) \in openingChars
                          \/ IsIdentChar(At(text, i))})

\* the first offset before o where a backward scan meets a closing
\* delimiter or an identifier character; -1 when there is none
FirstMetBackward(text, o) ==
  SetMax({i \in (-1)..(o - 1) :
            i = -1 \/ At(text, i) \in closingChars
                   \/ IsIdentChar(At(text, i))})

\* the document with the delimiters of the types other than ch's blanked
Blanked(d, ch) ==
  [l \in 1..Len(d) |->
     [c \in 1..Len(d[l]) |->
        IF /\ d[l][c] \in openingChars \cup closingChars
           /\ d[l][c] \notin {ch, matchingPairs(ch)}
        THEN " " ELSE d[l][c]]]

StartOffset == OffsetAt(doc, startPos)

\* the forward scan began inside an identifier run: on an identifier
\* character that follows another one
InsideIdentifier(text, o) ==
  o > 0 /\ IsIdentChar(At(text, o)) /\ IsIdentChar(At(text, o - 1))

\* C2 as stated: for every position p at which forward returns a unit that
\* is not the last one of the buffer, backward at the end of that unit
\* returns the same boundary.
C2_RoundTripEveryPosition ==
  (/\ op = "forwardSexp"
   /\ sexp # NoSexp
   /\ findForwardSexp(doc, EndOf(sexp)) # NoSexp)
  => findBackwardSexp(doc, cursor) = sexp

\* C2 amended: the round trip holds for every position p that does not lie
\* inside an identifier run (p is not on an identifier character preceded
\* by an identifier character).
C2_RoundTripFromUnitStart ==
  (/\ op = "forwardSexp"
   /\ sexp # NoSexp
   /\ findForwardSexp(doc, EndOf(sexp)) # NoSexp
   /\ ~InsideIdentifier(GetText(doc), StartOffset))
  => findBackwardSexp(doc, cursor) = sexp

C2_Witness ==
  /\ op = "forwardSexp"
  /\ sexp # NoSexp
  /\ findForwardSexp(doc, EndOf(sexp)) # NoSexp
  /\ ~InsideIdentifier(GetText(doc), StartOffset)
  /\ sexp.startLine # sexp.endLine
  /\ findBackwardSexp(doc, cursor) = sexp

\* C9: forward at an opening delimiter that has a balancing closer spans
\* from the opener through the first closer of the same type at which the
\* depth of that type is back to zero, and the delimiters of the other
\* types do not change the result.
C9_ForwardSpansBalancedGroup ==
  (/\ op = "forwardSexp"
   /\ At(GetText(doc), StartOffset) \in openingChars
   /\ BalancedCloses(GetText(doc), StartOffset) # {})
  => /\ sexp = Boundary(doc, StartOffset,
                        SetMin(BalancedCloses(GetText(doc), StartOffset)) + 1)
     /\ sexp = findForwardSexp(Blanked(doc, At(GetText(doc), StartOffset)),
                               startPos)

C9_Witness ==
  /\ op = "forwardSexp"
  /\ doc = <<<<"(", "a", " ", "(", "b", ")", " ", "c", ")">>>>
  /\ startPos = Pos(0, 3)
  /\ sexp = [startLine |-> 0, startChar |-> 3, endLine |-> 0, endChar |-> 6]

C9_WitnessOtherTypes ==
  /\ op = "forwardSexp"
  /\ At(GetText(doc), StartOffset) = "("
  /\ \E k \in (StartOffset + 1)..(OffsetAt(doc, EndOf(sexp)) - 1) :
       At(GetText(doc), k) \in {"[", "]", "{", "}"}
  /\ sexp = Boundary(doc, StartOffset,
                     SetMin(BalancedCloses(GetText(doc), StartOffset)) + 1)

\* C10: when the first thing a forward scan meets is an opening delimiter
\* with no balancing closer, or the first thing a backward scan meets is a
\* closing delimiter with no balancing opener, the result is NotFound.
C10_UnterminatedIsNotFound ==
  /\ (/\ op = "forwardSexp"
      /\ LET m == FirstMetForward(GetText(doc), StartOffset)
         IN /\ At(GetText(doc), m) \in openingChars
            /\ BalancedCloses(GetText(doc), m) = {})
     => sexp = NoSexp
  /\ (/\ op = "backwardSexp"
      /\ LET m == FirstMetBackward(GetText(doc), StartOffset)
         IN /\ At(GetText(doc), m) \in closingChars
            /\ BalancedOpens(GetText(doc), m) = {})
     => sexp = NoSexp

-----------------------------------------------------------------------------
(* Transposition: transposeSexpressions on any two units a before b, and   *)
(* the handlers that call it with the units they find.                     *)

SwapAlphabet == {"(", ")", "a", NL}

SwapScenarioDocs ==
  { <<<<"(", "a", ")", " ", "(", "b", ")">>>>,
    <<<<"(", "a", ")">>, <<" ", "b">>>> }

SwapDocs ==
  {SplitLines(t) : t \in SeqsUpTo(SwapAlphabet, MaxSwapLen)}
    \cup SwapScenarioDocs

InitSwap == InitWith(SwapDocs, {"typescript"})

\* the non-empty spans of the document, as boundaries
Spans(d) ==
  {Boundary(d, w[1], w[2]) :
     w \in {v \in (0..Len(GetText(d))) \X (0..Len(GetText(d))) : v[1] < v[2]}}

\* transposeSexpressions: the edit, then the cursor at the start of the
\* first boundary; a rejected edit throws before the cursor is set
TransposeMut(name, firstBoundary, secondBoundary) ==
  LET edits == TransposeEdits(doc, firstBoundary, secondBoundary)
  IN /\ op' = name
     /\ Returns([Cleared EXCEPT !.first = firstBoundary,
                                !.second = secondBoundary,
                                !.editOps = edits])
     /\ doc' = TransposedDoc(doc, firstBoundary, secondBoundary)
     /\ cursor' = IF EditsOverlap(edits) THEN cursor
                  ELSE StartOf(secondBoundary)
     /\ UNCHANGED lang

Transpose(name, firstBoundary, secondBoundary) ==
  LET edits == TransposeEdits(doc, firstBoundary, secondBoundary)
  IN /\ op' = name
     /\ Returns([Cleared EXCEPT !.first = firstBoundary,
                                !.second = secondBoundary,
                                !.editOps = edits])
     /\ doc' = TransposedDoc(doc, firstBoundary, secondBoundary)
     /\ cursor' = IF EditsOverlap(edits) THEN cursor
                  ELSE StartOf(firstBoundary)
     /\ UNCHANGED lang

\* a call that returns after its warning message
WarnsMut(name) ==
  /\ op' = name
  /\ Returns(Cleared)
  /\ orig' = doc
  /\ cursor' = Pos(0, 0)
  /\ UNCHANGED <<doc, lang>>

Warns(name) ==
  /\ op' = name
  /\ Returns(Cleared)
  /\ orig' = doc
  /\ UNCHANGED <<doc, cursor, lang>>

\* the units are enumerated on the initial documents within the length
\* bound, with the cursor at the start of the first unit; the handlers
\* below run in every state
TransposeSexpressions ==
  \E a \in Spans(doc), b \in Spans(doc) :
    /\ op = "init"
    /\ Len(GetText(doc)) <= MaxSwapLen
    /\ StartOf(a) = cursor
    /\ IsBeforeOrEqual(EndOf(a), StartOf(b))
    /\ orig' = doc
    /\ Transpose("transpose", a, b)

\* the boundaries of the two units after the swap: the second unit's text
\* now starts where the first began, the first unit's text now ends where
\* the second ended
PostSwapFirst ==
  LET o == OffsetAt(orig, StartOf(first))
  IN Boundary(doc, o, o + Len(BoundaryText(orig, second)))

PostSwapSecond ==
  LET o == OffsetAt(orig, EndOf(second))
  IN Boundary(doc, o - Len(BoundaryText(orig, first)), o)

\* transposeSexpressions again, on the post-swap boundaries
TransposeBack ==
  /\ op = "transpose"
  /\ UNCHANGED orig
  /\ Transpose("transposeBack", PostSwapFirst, PostSwapSecond)

HandleTransposeSexp ==
  LET currentSexpBoundary == findForwardSexp(doc, cursor)
      nextSexpBoundary == findForwardSexp(doc, EndOf(currentSexpBoundary))
  IN IF currentSexpBoundary = NoSexp \/ nextSexpBoundary = NoSexp
     THEN Warns("transposeSexp")
     ELSE /\ orig' = doc
          /\ Transpose("transposeSexp", currentSexpBoundary,
                       nextSexpBoundary)

HandleMoveSexpDown ==
  LET currentSexpBoundary == findForwardSexp(doc, cursor)
      nextSibling == findForwardSexp(doc, EndOf(currentSexpBoundary))
  IN IF currentSexpBoundary = NoSexp \/ nextSibling = NoSexp
     THEN Warns("moveSexpDown")
     ELSE /\ orig' = doc
          /\ Transpose("moveSexpDown", currentSexpBoundary, nextSibling)

NextSwap ==
  \/ TransposeSexpressions
  \/ TransposeBack
  \/ HandleTransposeSexp
  \/ HandleMoveSexpDown

SpecSwap == InitSwap /\ [][NextSwap]_vars

-----------------------------------------------------------------------------
(* The swap, stated on the text before and after it.                       *)

Swapped == op \in {"transpose", "transposeSexp", "moveSexpDown"}
             /\ first # NoSexp

\* the text before the swap, cut at the four ends of the two units
TextBefore == GetText(orig)

Cut(a, b) == SubSeq(TextBefore, a + 1, b)

AStart == OffsetAt(orig, StartOf(first))

AEnd == OffsetAt(orig, EndOf(first))

BStart == OffsetAt(orig, StartOf(second))

BEnd == OffsetAt(orig, EndOf(second))

\* C3: a swap of two units a before b, followed by a swap on the post-swap
\* boundaries, restores the original text, separator included.
C3_SwapIsInvolution ==
  op = "transposeBack" => GetText(doc) = GetText(orig)

C3_Witness ==
  /\ op = "transposeBack"
  /\ GetText(doc) = GetText(orig)
  /\ NL \in {GetText(doc)[i] : i \in (OffsetAt(doc, EndOf(second)) + 1)..
                                     OffsetAt(doc, StartOf(first))}
       \cup {GetText(doc)[i] : i \in (OffsetAt(doc, EndOf(first)) + 1)..
                                     OffsetAt(doc, StartOf(second))}
  /\ Len(BoundaryText(doc, first)) # Len(BoundaryText(doc, second))

\* C5: a swap of a and b with a.end <= b.start leaves the text before
\* a.start and after b.end as it was and puts textB, the literal separator
\* and textA in between; "(a) (b)" becomes "(b) (a)".
C5_SwapReplacesCombinedSpan ==
  /\ (Swapped /\ AEnd <= BStart)
     => GetText(doc) = Cut(0, AStart) \o Cut(BStart, BEnd)
                         \o Cut(AEnd, BStart) \o Cut(AStart, AEnd)
                         \o Cut(BEnd, Len(TextBefore))
  /\ (/\ op = "moveSexpDown"
      /\ orig = <<<<"(", "a", ")", " ", "(", "b", ")">>>>
      /\ startPos = Pos(0, 0))
     => doc = <<<<"(", "b", ")", " ", "(", "a", ")">>>>

C5_Witness ==
  /\ op = "moveSexpDown"
  /\ orig = <<<<"(", "a", ")", " ", "(", "b", ")">>>>
  /\ startPos = Pos(0, 0)
  /\ doc = <<<<"(", "b", ")", " ", "(", "a", ")">>>>
  /\ cursor = Pos(0, 0)

-----------------------------------------------------------------------------
(* Scope finders: findScopeBoundary, findContainingFunction and            *)
(* findContainingClass of the TypeScript and the Python finder, on         *)
(* documents made of the lines below.                                      *)

TsLineFunction ==
  <<"f", "u", "n", "c", "t", "i", "o", "n", " ", "f", "(", ")", " ", "{">>

TsLineReturn ==
  <<" ", " ", "r", "e", "t", "u", "r", "n", " ", "1", ";">>

TsLineClose ==
  <<"}">>

TsLineMethod ==
  <<"g", "(", ")", " ", "{">>

TsLineClass ==
  <<"c", "l", "a", "s", "s", " ", "C", " ", "{">>

TsLineElse ==
  <<"}", " ", "e", "l", "s", "e", " ", "{">>

PyLineDef ==
  <<"d", "e", "f", " ", "f", "(", ")", ":">>

PyLineReturn ==
  <<" ", " ", " ", " ", "r", "e", "t", "u", "r", "n", " ", "1">>

PyLineAssign ==
  <<"x", " ", "=", " ", "2">>

PyLineBlank ==
  <<>>

PyLineComment ==
  <<"#", " ", "c">>

PyLineInnerDef ==
  <<" ", " ", " ", " ", "d", "e", "f", " ", "g", "(", ")", ":">>

PyLineClass ==
  <<"c", "l", "a", "s", "s", " ", "K", ":">>

TsLines ==
  {TsLineFunction, TsLineReturn, TsLineClose, TsLineMethod, TsLineClass,
   TsLineElse}

PyLines ==
  {PyLineDef, PyLineReturn, PyLineAssign, PyLineBlank, PyLineComment,
   PyLineInnerDef, PyLineClass}

TsScenarioDocs ==
  { <<TsLineFunction, TsLineMethod, TsLineClose, TsLineClose>>,
    <<TsLineClass, TsLineMethod, TsLineReturn, TsLineClose, TsLineClose>>,
    <<TsLineFunction, TsLineMethod, TsLineClose, TsLineReturn,
      TsLineClose>> }

PyScenarioDocs ==
  { <<PyLineDef, PyLineReturn, PyLineBlank, PyLineAssign>>,
    <<PyLineClass, PyLineInnerDef, PyLineBlank, PyLineComment,
      PyLineInnerDef>>,
    <<PyLineDef, PyLineInnerDef, PyLineComment, PyLineReturn,
      PyLineAssign>> }

ScopeDocs(l) ==
  IF l = "python"
  THEN (SeqsUpTo(PyLines, MaxPyLines) \ {<<>>}) \cup PyScenarioDocs
  ELSE (SeqsUpTo(TsLines, MaxTsLines) \ {<<>>}) \cup TsScenarioDocs

\* the finders read the line of the cursor only; the column is fixed
ScopeCursors(d) ==
  {Pos(l, Min(2, Len(LineText(d, l)))) : l \in 0..(LineCount(d) - 1)}

InitScope ==
  /\ lang \in {"typescript", "python"}
  /\ doc \in ScopeDocs(lang)
  /\ cursor \in ScopeCursors(doc)
  /\ op = "init"
  /\ startPos = cursor
  /\ orig = doc
  /\ pair = NoPair
  /\ sexp = NoSexp
  /\ scopeStart = NoLine
  /\ scopeEnd = NoLine
  /\ scopeInfo = NoScope
  /\ first = NoSexp
  /\ second = NoSexp
  /\ editOps = <<>>
  /\ wrapAround = FALSE
  /\ InitServices

FindScopeBoundary ==
  \E startLine \in 0..(LineCount(doc) - 1) :
    /\ op' = "scopeBoundary"
    /\ Returns([Cleared EXCEPT
                  !.scopeStart = startLine,
                  !.scopeEnd = findScopeBoundary(lang, doc, startLine,
                                                 cursor.line)])
    /\ UNCHANGED <<doc, cursor, lang, orig>>

FindContainingFunction ==
  /\ op' = "containingFunction"
  /\ Returns([Cleared EXCEPT
                !.scopeInfo = findContainingFunction(lang, doc, cursor)])
  /\ UNCHANGED <<doc, cursor, lang, orig>>

FindContainingClass ==
  /\ op' = "containingClass"
  /\ Returns([Cleared EXCEPT
                !.scopeInfo = findContainingClass(lang, doc, cursor)])
  /\ UNCHANGED <<doc, cursor, lang, orig>>

NextScope ==
  FindScopeBoundary \/ FindContainingFunction \/ FindContainingClass

SpecScope == InitScope /\ [][NextScope]_vars

-----------------------------------------------------------------------------
(* Scopes, stated on the text of the document without the loops.           *)

ScopeText == GetText(doc)

\* the zero-based offsets, from the start of line s on, of the closing
\* braces after which as many braces have closed as have opened since the
\* start of line s
BraceZeros(d, s) ==
  LET o == LineStartOffset(d, s)
  IN {k \in o..(Len(GetText(d)) - 1) :
        /\ At(GetText(d), k) = "}"
        /\ CountIn(GetText(d), o + 1, k + 1, "{")
             = CountIn(GetText(d), o + 1, k + 1, "}")}

\* the brace count after the character at offset k, counted from line s
DepthAfter(d, s, k) ==
  CountIn(GetText(d), LineStartOffset(d, s) + 1, k + 1, "{")
    - CountIn(GetText(d), LineStartOffset(d, s) + 1, k + 1, "}")

LineOfOffset(d, k) == PositionAt(d, k).line

\* the first line at which the count is back to zero after being positive
FirstZeroLine(d, s) ==
  IF BraceZeros(d, s) = {} THEN NoLine
  ELSE LineOfOffset(d, SetMin(BraceZeros(d, s)))

\* the offsets of the braces from the start of line s on
BraceOffsets(d, s) ==
  {k \in LineStartOffset(d, s)..(Len(GetText(d)) - 1) :
     At(GetText(d), k) \in {"{", "}"}}

IsHead(l, kind, t) ==
  IF l = "python"
  THEN IF kind = "function" THEN PyIsFunctionDef(t) ELSE PyIsClassDef(t)
  ELSE IF kind = "function" THEN TsIsFunctionDef(Trim(t))
       ELSE TsIsEnumDef(Trim(t)) \/ TsIsInterfaceDef(Trim(t))
              \/ TsIsClassDef(Trim(t))

\* the declaration heads strictly inside the scope that starts at line s and
\* ends at line e, lying at a brace depth of at least one
NestedHeads(d, s, e) ==
  {n \in (s + 1)..e :
     /\ IsHead("typescript", "function", LineText(d, n))
          \/ IsHead("typescript", "class", LineText(d, n))
     /\ DepthAfter(d, s, LineStartOffset(d, n) - 1) >= 1
     /\ BraceZeros(d, n) # {}}

\* C4: the brace-based resolver returns the first line at which the brace
\* count is back to zero after having been positive (null when that line
\* precedes the line of the cursor it is given); when the first brace from
\* the declaration line on opens the declaration's block, that is the line
\* of the brace closing this block, and it is not the closing brace of a
\* declaration nested at a deeper brace depth.
C4_BraceScopeEnd ==
  (op = "scopeBoundary" /\ lang = "typescript")
  => /\ scopeEnd = IF FirstZeroLine(doc, scopeStart) >= cursor.line
                   THEN FirstZeroLine(doc, scopeStart) ELSE NoLine
     /\ TsFindScopeBoundary(doc, scopeStart, scopeStart)
          = FirstZeroLine(doc, scopeStart)
     /\ (/\ scopeEnd # NoLine
         /\ At(ScopeText, SetMin(BraceOffsets(doc, scopeStart))) = "{")
        => /\ SetMin(BraceZeros(doc, scopeStart))
                = SetMin(BalancedCloses(ScopeText,
                                        SetMin(BraceOffsets(doc, scopeStart))))
           /\ \A n \in NestedHeads(doc, scopeStart, scopeEnd) :
                /\ SetMin(BraceZeros(doc, n))
                     # SetMin(BraceZeros(doc, scopeStart))
                /\ FirstZeroLine(doc, n) <= scopeEnd

C4_Witness ==
  /\ op = "scopeBoundary"
  /\ lang = "typescript"
  /\ scopeStart = 0
  /\ scopeEnd = 3
  /\ \E n \in NestedHeads(doc, 0, 3) : FirstZeroLine(doc, n) = 2
  /\ IsHead("typescript", "function", LineText(doc, 0))

\* the kind of declaration the last findContaining call looked for
Kind == IF op = "containingFunction" THEN "function" ELSE "class"

\* the end line the finder resolves for the declaration at line h, asked
\* as the callers of findContaining ask it: with the line h itself
ResolvedEnd(l, d, h) == findScopeBoundary(l, d, h, h)

\* the declaration heads of the kind at or above the cursor line whose
\* resolved end is at or below it
ContainingHeads(l, d, kind, cur) ==
  {h \in 0..cur :
     /\ IsHead(l, kind, LineText(d, h))
     /\ ResolvedEnd(l, d, h) # NoLine
     /\ ResolvedEnd(l, d, h) >= cur}

\* the heads of the kind between line h and the cursor line, h excluded
NearerHeads(l, d, kind, h, cur) ==
  {n \in (h + 1)..cur : IsHead(l, kind, LineText(d, n))}

Scenario1 == <<TsLineFunction, TsLineReturn, TsLineClose>>

\* C6: findContaining returns the nearest declaration head of the kind, at
\* or above the cursor line, whose resolved end line is >= the cursor line;
\* nearer heads whose resolved end precedes the cursor line are passed
\* over; NotFound when there is no such head.  On ["function f() {",
\* "  return 1;", "}"] with the cursor at line 1, column 2, the function
\* starts at line 0 and its end resolves to line 2.
C6_FindContainingNearest ==
  /\ op \in {"containingFunction", "containingClass"}
     => /\ scopeInfo.startLine
             = IF ContainingHeads(lang, doc, Kind, cursor.line) = {}
               THEN NoLine
               ELSE SetMax(ContainingHeads(lang, doc, Kind, cursor.line))
        /\ scopeInfo # NoScope
           => \A n \in NearerHeads(lang, doc, Kind, scopeInfo.startLine,
                                   cursor.line) :
                ResolvedEnd(lang, doc, n) < cursor.line
  /\ (/\ op = "containingFunction"
      /\ lang = "typescript"
      /\ doc = Scenario1
      /\ cursor = Pos(1, 2))
     => /\ scopeInfo = ScopeInfo("function", 0)
        /\ ResolvedEnd(lang, doc, scopeInfo.startLine) = 2

C6_Witness ==
  /\ op = "containingFunction"
  /\ scopeInfo # NoScope
  /\ \E n \in NearerHeads(lang, doc, Kind, scopeInfo.startLine, cursor.line) :
       /\ ResolvedEnd(lang, doc, n) # NoLine
       /\ ResolvedEnd(lang, doc, n) < cursor.line
  /\ ResolvedEnd(lang, doc, scopeInfo.startLine) >= cursor.line

C6_WitnessScenario ==
  /\ op = "containingFunction"
  /\ lang = "typescript"
  /\ doc = Scenario1
  /\ cursor = Pos(1, 2)
  /\ scopeInfo = ScopeInfo("function", 0)

\* the lines after line s that end an indentation scope of base b: neither
\* blank nor comment-only, and indented by no more than b
PyTerminators(d, s, b) ==
  {t \in (s + 1)..(LineCount(d) - 1) :
     /\ ~PySkipped(LineText(d, t))
     /\ Len(getIndentation(LineText(d, t))) <= b}

\* the last non-blank line before the first terminator; the last line of
\* the document when there is no terminator
PyLastNonBlankEnd(d, s) ==
  LET T == PyTerminators(d, s, Len(getIndentation(LineText(d, s))))
  IN IF T = {} THEN LineCount(d) - 1
     ELSE SetMax({l \in s..(SetMin(T) - 1) : Trim(LineText(d, l)) # <<>>})

\* C7: the indentation-based resolver returns the last non-blank line
\* before the first line, blank and comment-only lines skipped, whose
\* indentation is <= baseIndent, and the last line of the buffer when there
\* is no such line; ["def f():", "    return 1", "x = 2"] from line 0 gives 1.
C7_IndentScopeEndsAtLastNonBlank ==
  (/\ op = "scopeBoundary"
   /\ lang = "python"
   /\ IsHead("python", "function", LineText(doc, scopeStart))
        \/ IsHead("python", "class", LineText(doc, scopeStart))
   /\ scopeStart <= cursor.line
   /\ cursor.line <= PyLastNonBlankEnd(doc, scopeStart))
  => scopeEnd = PyLastNonBlankEnd(doc, scopeStart)

-----------------------------------------------------------------------------
(* Unterminated scopes.                                                    *)

\* the offsets, from the start of line s on, after which the brace count is
\* zero although it was positive at an earlier offset
BackAtZero(d, s) ==
  {k \in LineStartOffset(d, s)..(Len(GetText(d)) - 1) :
     /\ DepthAfter(d, s, k) = 0
     /\ \E j \in LineStartOffset(d, s)..(k - 1) : DepthAfter(d, s, j) > 0}

\* the scope starting at line s is not closed before the end of the buffer
Unterminated(d, s) == BackAtZero(d, s) = {}

\* C11: when the brace-based resolver reaches the end of the buffer without
\* the brace count having returned to zero, it returns null, and
\* findContaining does not report a declaration whose scope is unterminated
\* as containing the cursor.
C11_UnterminatedScopeIsNotFound ==
  /\ (op = "scopeBoundary" /\ lang = "typescript"
        /\ Unterminated(doc, scopeStart))
     => scopeEnd = NoLine
  /\ (op \in {"containingFunction", "containingClass"}
        /\ lang = "typescript" /\ scopeInfo # NoScope)
     => ~Unterminated(doc, scopeInfo.startLine)

\* an unterminated declaration whose block has opened, at the cursor line
C11_Witness ==
  /\ op = "scopeBoundary"
  /\ lang = "typescript"
  /\ scopeStart = cursor.line
  /\ IsHead("typescript", "function", LineText(doc, scopeStart))
  /\ Unterminated(doc, scopeStart)
  /\ \E k \in BraceOffsets(doc, scopeStart) : DepthAfter(doc, scopeStart, k) > 0
  /\ scopeEnd = NoLine

\* findContaining passes over an unterminated declaration at the cursor line
C11_WitnessContaining ==
  /\ op = "containingFunction"
  /\ lang = "typescript"
  /\ scopeInfo = NoScope
  /\ IsHead("typescript", "function", LineText(doc, cursor.line))
  /\ Unterminated(doc, cursor.line)
  /\ \E k \in BraceOffsets(doc, cursor.line) :
       DepthAfter(doc, cursor.line, k) > 0

-----------------------------------------------------------------------------
(* Parents and siblings: the selection handlers and move-up, on documents  *)
(* over parentheses, a letter, the blank and the line break.               *)

ParentAlphabet == {"(", ")", "a", " ", NL}

ParentScenarioDocs ==
  { <<<<"(", "a", " ", "b", ")">>>>,
    <<<<"(", "(", "a", ")", ")">>>>,
    <<<<"(", "a", ")", "(", "b", ")">>>>,
    <<<<"(">>, <<"(", "a", " ", "b", ")">>, <<")">>>>,
    <<<<"a", " ", "b">>>>,
    <<<<"a", "(", "a", ")">>>>,
    <<<<"(", "a", "a", ")", "a", "a">>>>,
    <<<<"(", "(", "a", ")", "(", "b", ")", ")">>>>,
    <<<<"[", "a", "]", "{", "b", "}">>>>,
    <<<<"a", "(", ")", "a">>>>,
    <<<<"a", " ", "(", "b", ")", "c">>>>,
    <<<<"(", "a", "a", " ", "[", "b", "]">>, <<" ", "{", "}", ")">>>> }

ParentDocs ==
  {SplitLines(t) : t \in SeqsUpTo(ParentAlphabet, MaxParentLen)}
    \cup ParentScenarioDocs

InitParent == InitWith(ParentDocs, {"typescript"})

\* selectSexpression: the selection runs from the start of the boundary to
\* its end, where the cursor is
Selects(name, boundary, currentSelectionBoundary) ==
  /\ op' = name
  /\ Returns([Cleared EXCEPT !.sexp = boundary,
                             !.first = currentSelectionBoundary])
  /\ cursor' = IF boundary # NoSexp THEN EndOf(boundary) ELSE cursor
  /\ orig' = doc
  /\ UNCHANGED <<doc, lang>>

\* the selections whose active end is the cursor, the empty one included
Selections(d, active) ==
  {IF IsBefore(p, active)
   THEN [startLine |-> p.line, startChar |-> p.character,
         endLine |-> active.line, endChar |-> active.character]
   ELSE [startLine |-> active.line, startChar |-> active.character,
         endLine |-> p.line, endChar |-> p.character] :
     p \in ValidPositions(d)}

HandleMarkParentSexp ==
  Selects("markParentSexp", findParentSexpression(doc, cursor, NoSexp),
          NoSexp)

HandleExpandSexpSelection ==
  \E currentSelectionBoundary \in Selections(doc, cursor) :
    Selects("expandSexpSelection",
            findParentSexpression(doc, StartOf(currentSelectionBoundary),
                                  currentSelectionBoundary),
            currentSelectionBoundary)

LegacyHandleMarkParentSexp ==
  Selects("legacyMarkParentSexp",
          LegacyFindParentSexpression(doc, cursor, NoSexp), NoSexp)

LegacyHandleExpandSexpSelection ==
  \E currentSelectionBoundary \in Selections(doc, cursor) :
    Selects("legacyExpandSexpSelection",
            LegacyFindParentSexpression(doc,
                                        StartOf(currentSelectionBoundary),
                                        currentSelectionBoundary),
            currentSelectionBoundary)

HandleMoveSexpUp ==
  LET parentBoundary == findParentSexpression(doc, cursor, NoSexp)
      currentSexpBoundary == findForwardSexp(doc, cursor)
      previousSibling ==
        findPreviousSibling(doc, currentSexpBoundary, parentBoundary)
  IN IF \/ parentBoundary = NoSexp
        \/ currentSexpBoundary = NoSexp
        \/ previousSibling = NoSexp
     THEN Warns("moveSexpUp")
     ELSE /\ orig' = doc
          /\ Transpose("moveSexpUp", previousSibling, currentSexpBoundary)

LegacyHandleMoveSexpUp ==
  LET parentBoundary == LegacyFindParentSexpression(doc, cursor, NoSexp)
      currentSexpBoundary == findForwardSexp(doc, cursor)
      previousSibling ==
        LegacyFindPreviousSibling(doc, currentSexpBoundary, parentBoundary)
  IN IF \/ parentBoundary = NoSexp
        \/ currentSexpBoundary = NoSexp
        \/ previousSibling = NoSexp
     THEN Warns("legacyMoveSexpUp")
     ELSE /\ orig' = doc
          /\ Transpose("legacyMoveSexpUp", previousSibling,
                       currentSexpBoundary)

\* handleMoveSexpDown invoked a second time, directly after a call that
\* swapped, with the cursor where that call left it; orig keeps the text
\* from before the first call
HandleMoveSexpDownAgain ==
  /\ op = "moveSexpDown"
  /\ first # NoSexp
  /\ \E currentSexpBoundary \in {findForwardSexp(doc, cursor)} :
       \E nextSibling \in
           {findForwardSexp(doc, EndOf(currentSexpBoundary))} :
         IF currentSexpBoundary = NoSexp \/ nextSibling = NoSexp
         THEN /\ op' = "moveSexpDownAgain"
              /\ Returns(Cleared)
              /\ UNCHANGED <<doc, cursor, lang, orig>>
         ELSE /\ UNCHANGED orig
              /\ Transpose("moveSexpDownAgain", currentSexpBoundary,
                           nextSibling)

NextParent ==
  \/ HandleMarkParentSexp
  \/ HandleExpandSexpSelection
  \/ LegacyHandleMarkParentSexp
  \/ LegacyHandleExpandSexpSelection
  \/ HandleMoveSexpUp
  \/ LegacyHandleMoveSexpUp
  \/ HandleMoveSexpDown
  \/ HandleTransposeSexp
  \/ HandleMoveSexpDownAgain

SpecParent == InitParent /\ [][NextParent]_vars

-----------------------------------------------------------------------------
(* Delimiter groups, stated on the text of the document without the scans. *)

\* the delimiter groups of the text, as pairs of the offset of the opener
\* and the offset after the first closer of its type that balances it
Groups(text) ==
  {<<o, SetMin(BalancedCloses(text, o)) + 1>> :
     o \in {q \in 0..(Len(text) - 1) :
              At(text, q) \in openingChars /\ BalancedCloses(text, q) # {}}}

\* the groups whose span, both ends included, contains the offset p
GroupsContaining(text, p) ==
  {g \in Groups(text) : g[1] <= p /\ p <= g[2]}

\* a boundary as a pair of offsets
Offsets(d, b) == <<OffsetAt(d, StartOf(b)), OffsetAt(d, EndOf(b))>>

\* the result is a group that contains the offset p and that has no other
\* such group inside it; NoSexp when no group contains p
IsSmallestGroupAt(d, p, result) ==
  LET G == GroupsContaining(GetText(d), p)
  IN IF G = {} THEN result = NoSexp
     ELSE /\ result # NoSexp
          /\ Offsets(d, result) \in G
          /\ \A g \in G :
               (Offsets(d, result)[1] <= g[1] /\ g[2] <= Offsets(d, result)[2])
                 => g = Offsets(d, result)

\* C12: findParentSexpression of BaseSexpHandler, called without a boundary
\* to exclude, returns the smallest delimiter group whose span contains the
\* position, whichever opening delimiter of the buffer starts it, and
\* NotFound only when no delimiter group contains the position.
C12_FindParentIsSmallestGroup ==
  op = "markParentSexp"
  => IsSmallestGroupAt(orig, OffsetAt(orig, startPos), sexp)

\* every opening delimiter of the text has a closer that balances it
OpenersMatched(text) ==
  \A o \in 0..(Len(text) - 1) :
    At(text, o) \in openingChars => BalancedCloses(text, o) # {}

\* the findParentSexpression that precedes the split of the handlers does
\* return the smallest group when every opening delimiter is matched
LegacyFindParentIsSmallestGroup ==
  (op = "legacyMarkParentSexp" /\ OpenersMatched(GetText(orig)))
  => IsSmallestGroupAt(orig, OffsetAt(orig, startPos), sexp)

\* the boundary outer contains the whole span of inner and is not equal to it
StrictlyContains(d, outer, inner) ==
  /\ Offsets(d, outer)[1] <= Offsets(d, inner)[1]
  /\ Offsets(d, inner)[2] <= Offsets(d, outer)[2]
  /\ Offsets(d, outer) # Offsets(d, inner)

\* C13: the unit that findParentSexpression returns for expand-selection
\* starts at or before the start of the selection, ends at or after its
\* end, and is not the selection itself.
C13_ExpandStrictlyContainsSelection ==
  (op = "expandSexpSelection" /\ sexp # NoSexp)
  => StrictlyContains(orig, sexp, first)

\* the handler that precedes the split returns a unit that contains the
\* selection, the selection itself included
LegacyExpandContainsSelection ==
  (op = "legacyExpandSexpSelection" /\ sexp # NoSexp)
  => StrictlyContains(orig, sexp, first) \/ sexp = first

-----------------------------------------------------------------------------
(* Siblings, stated by the enumeration of the units inside a parent.       *)

\* the units met by repeated forward calls from the offset o on, each call
\* starting at the end of the unit before, up to the offset limit
RECURSIVE UnitsFrom(_, _, _)
UnitsFrom(d, o, limit) ==
  LET u == findForwardSexp(d, PositionAt(d, o))
  IN IF u = NoSexp \/ Offsets(d, u)[2] > limit THEN <<>>
     ELSE <<u>> \o UnitsFrom(d, Offsets(d, u)[2], limit)

\* the units inside the parent, from just inside its opening delimiter to
\* just before its closing delimiter
ChildrenOf(d, parent) ==
  UnitsFrom(d, Offsets(d, parent)[1] + 1, Offsets(d, parent)[2] - 1)

\* the last child whose end is at or before the start of current
PreviousChild(d, current, parent) ==
  LET ch == ChildrenOf(d, parent)
      I == {i \in 1..Len(ch) : Offsets(d, ch[i])[2] <= Offsets(d, current)[1]}
  IN IF I = {} THEN NoSexp ELSE ch[SetMax(I)]

IsChild(d, current, parent) ==
  \E i \in 1..Len(ChildrenOf(d, parent)) : ChildrenOf(d, parent)[i] = current

\* the parent and the current unit that move-up computed before the call
MoveUpParent == findParentSexpression(orig, startPos, NoSexp)

MoveUpCurrent == findForwardSexp(orig, startPos)

\* C14: for a current unit that is a child of the parent, findPreviousSibling
\* returns the last unit inside the parent whose end precedes the start of
\* the current unit, and NotFound only when the current unit is the first
\* child; in "(a b)" the previous sibling of b is a.
C14_PreviousSiblingIsLastChildBefore ==
  (/\ op = "moveSexpUp"
   /\ MoveUpParent # NoSexp
   /\ MoveUpCurrent # NoSexp
   /\ IsChild(orig, MoveUpCurrent, MoveUpParent))
  => first = PreviousChild(orig, MoveUpCurrent, MoveUpParent)

LegacyMoveUpParent == LegacyFindParentSexpression(orig, startPos, NoSexp)

\* the findPreviousSibling that precedes the split of the handlers, which
\* starts one column inside the parent, does return that child when every
\* opening delimiter is matched
LegacyPreviousSiblingIsLastChildBefore ==
  (/\ op = "legacyMoveSexpUp"
   /\ LegacyMoveUpParent # NoSexp
   /\ MoveUpCurrent # NoSexp
   /\ OpenersMatched(GetText(orig))
   /\ IsChild(orig, MoveUpCurrent, LegacyMoveUpParent))
  => first = PreviousChild(orig, MoveUpCurrent, LegacyMoveUpParent)

\* the delimiter groups that enclose the boundary b between their delimiters
EnclosingGroups(d, b) ==
  {g \in Groups(GetText(d)) :
     g[1] < Offsets(d, b)[1] /\ Offsets(d, b)[2] < g[2]}

\* C15: the unit that move-down swaps with the current unit lies in the
\* same enclosing delimiter group as the current unit.
C15_MoveDownStaysInParent ==
  (op = "moveSexpDown" /\ first # NoSexp)
  => EnclosingGroups(orig, first) = EnclosingGroups(orig, second)

-----------------------------------------------------------------------------
(* Scope navigation on the TypeScript documents of the scope finders.      *)

\* the cursor at the start of a line or inside it
NavCursors(d) ==
  UNION {{Pos(l, 0), Pos(l, Min(2, Len(LineText(d, l))))} :
           l \in 0..(LineCount(d) - 1)}

NavLines == {TsLineFunction, TsLineReturn, TsLineClose, TsLineClass}

NavDocs == (SeqsUpTo(NavLines, MaxNavLines) \ {<<>>}) \cup TsScenarioDocs

InitNav ==
  /\ InitWith(NavDocs, {"typescript"})
  /\ cursor \in NavCursors(doc)

\* navigateToScope followed by handleNavigationResult, for either value of
\* the setting scopeNavigation.wrapAround.  A command is applied to the
\* editor states of InitNav: its result depends on the document and the
\* cursor alone, and InitNav holds every cursor a command leaves behind
\* (column 0 of a line).
Navigate(name, direction, scopeType) ==
  /\ op = "init"
  /\ \E wrap \in BOOLEAN :
    \E target \in {navigateToScope(doc, cursor, lang, direction, scopeType,
                                   wrap)} :
       /\ op' = name
       /\ Returns([Cleared EXCEPT !.scopeInfo = target,
                                  !.wrapAround = wrap])
       /\ cursor' = IF target # NoScope THEN Pos(target.startLine, 0)
                    ELSE cursor
       /\ orig' = doc
       /\ UNCHANGED <<doc, lang>>

HandleNextFunction == Navigate("nextFunction", "forward", "function")

HandlePreviousFunction == Navigate("previousFunction", "backward", "function")

HandleNextClass == Navigate("nextClass", "forward", "class")

HandlePreviousClass == Navigate("previousClass", "backward", "class")

HandleNextScope == Navigate("nextScope", "forward", "any")

HandlePreviousScope == Navigate("previousScope", "backward", "any")

NextNav ==
  \/ HandleNextFunction
  \/ HandlePreviousFunction
  \/ HandleNextClass
  \/ HandlePreviousClass
  \/ HandleNextScope
  \/ HandlePreviousScope

SpecNav == InitNav /\ [][NextNav]_vars

-----------------------------------------------------------------------------
(* Scope navigation: the declaration the cursor is moved to                *)

ForwardOps == {"nextFunction", "nextClass", "nextScope"}

BackwardOps == {"previousFunction", "previousClass", "previousScope"}

NavOps == ForwardOps \cup BackwardOps

ScopeTypeOf(name) ==
  IF name \in {"nextFunction", "previousFunction"} THEN "function"
  ELSE IF name \in {"nextClass", "previousClass"} THEN "class"
  ELSE "any"

\* the lines of d that are declaration heads of the requested kind
HeadLines(d, scopeType) ==
  {i \in 0..(LineCount(d) - 1) :
     \/ /\ scopeType \in {"function", "any"}
        /\ IsHead("typescript", "function", LineText(d, i))
     \/ /\ scopeType \in {"class", "any"}
        /\ IsHead("typescript", "class", LineText(d, i))}

\* the head lines on the requested side of the position
AdjacentHeads(d, position, name) ==
  IF name \in ForwardOps
  THEN {l \in HeadLines(d, ScopeTypeOf(name)) : IsBefore(position, Pos(l, 0))}
  ELSE {l \in HeadLines(d, ScopeTypeOf(name)) : IsBefore(Pos(l, 0), position)}

NearestOf(name, S) ==
  IF name \in ForwardOps THEN LeastOf(S)
  ELSE CHOOSE l \in S : \A m \in S : m <= l

\* C16: when a declaration head of the requested kind lies strictly after
\* (forward) or strictly before (backward) the cursor, the command returns
\* the nearest such head: the first one after, the last one before.
C16_NavigateReturnsNearestHead ==
  (op \in NavOps /\ AdjacentHeads(doc, startPos, op) # {})
    => /\ scopeInfo # NoScope
       /\ scopeInfo.startLine = NearestOf(op, AdjacentHeads(doc, startPos, op))

\* the lines the code enumerates: the start lines of NavigationScopes
EnumeratedLines(d, scopeType) ==
  LET scopes == NavigationScopes(d, "typescript", scopeType)
  IN {scopes[i].startLine : i \in 1..Len(scopes)}

EnumeratedAdjacent(d, position, name) ==
  IF name \in ForwardOps
  THEN {l \in EnumeratedLines(d, ScopeTypeOf(name)) :
          IsBefore(position, Pos(l, 0))}
  ELSE {l \in EnumeratedLines(d, ScopeTypeOf(name)) :
          IsBefore(Pos(l, 0), position)}

\* what the code does guarantee: the nearest of the scopes it enumerates,
\* which are the heads whose scope end is found
NavigateReturnsNearestEnumerated ==
  (op \in NavOps /\ EnumeratedAdjacent(doc, startPos, op) # {})
    => /\ scopeInfo # NoScope
       /\ scopeInfo.startLine
            = NearestOf(op, EnumeratedAdjacent(doc, startPos, op))
       /\ cursor = Pos(scopeInfo.startLine, 0)

EnumeratedAreHeads ==
  \A t \in {"function", "class", "any"} :
    EnumeratedLines(doc, t) \subseteq HeadLines(doc, t)

\* a head after the cursor that is not enumerated, and nothing returned
C16_MissedHead ==
  /\ op = "nextFunction"
  /\ AdjacentHeads(doc, startPos, op) # {}
  /\ scopeInfo = NoScope
  /\ wrapAround


\* the declarations of the buffer: the heads of the requested kind whose
\* scope end is found (a head that is never closed opens no scope)
Declarations(d, scopeType) ==
  {l \in HeadLines(d, scopeType) : TsFindScopeBoundary(d, l, l) # NoLine}

DeclarationsAreEnumerated ==
  \A t \in {"function", "class", "any"} :
    Declarations(doc, t) = EnumeratedLines(doc, t)

AdjacentDeclarations(d, position, name) ==
  IF name \in ForwardOps
  THEN {l \in Declarations(d, ScopeTypeOf(name)) :
          IsBefore(position, Pos(l, 0))}
  ELSE {l \in Declarations(d, ScopeTypeOf(name)) :
          IsBefore(Pos(l, 0), position)}

C17_WitnessBackward ==
  /\ op = "previousClass"
  /\ wrapAround
  /\ AdjacentDeclarations(doc, startPos, op) = {}
  /\ scopeInfo # NoScope
  /\ scopeInfo.startLine > startPos.line

C17_WitnessNotFound ==
  /\ op = "nextScope"
  /\ ~wrapAround
  /\ Declarations(doc, "any") # {}
  /\ AdjacentDeclarations(doc, startPos, op) = {}
  /\ scopeInfo = NoScope
  /\ cursor = startPos

\* the wrapAround branch over the scopes the code enumerates
WrapAroundOverEnumerated ==
  (op \in NavOps /\ EnumeratedAdjacent(doc, startPos, op) = {})
    => LET lines == EnumeratedLines(doc, ScopeTypeOf(op))
       IN /\ (wrapAround /\ lines # {})
               => /\ scopeInfo # NoScope
                  /\ scopeInfo.startLine
                       = (IF op \in ForwardOps THEN LeastOf(lines)
                          ELSE CHOOSE l \in lines : \A m \in lines : m <= l)
                  /\ cursor = Pos(scopeInfo.startLine, 0)
          /\ (~wrapAround \/ lines = {})
               => (scopeInfo = NoScope /\ cursor = startPos)

\* the part of C17 that holds for every head: without wrapAround and with
\* no head on the requested side nothing is returned and the cursor stays
NotFoundLeavesCursor ==
  (op \in NavOps /\ AdjacentHeads(doc, startPos, op) = {} /\ ~wrapAround)
    => (scopeInfo = NoScope /\ cursor = startPos)

\* the buffer holds a head, wrapAround is true, and nothing is returned
HeadNotWrappedTo ==
  /\ op \in NavOps
  /\ wrapAround
  /\ AdjacentHeads(doc, startPos, op) = {}
  /\ HeadLines(doc, ScopeTypeOf(op)) # {}
  /\ scopeInfo = NoScope

-----------------------------------------------------------------------------
(* The edit operations of a swap                                           *)

\* the commands whose swap starts from the text kept in orig
SwapOps == {"transpose", "transposeSexp", "moveSexpDown"}

\* C18: each swap performs exactly one replace operation, and it covers the
\* combined span from the start of the first unit to the end of the second,
\* also when the two units are directly adjacent.
C18_SwapIsOneReplace ==
  (first # NoSexp /\ second # NoSexp /\ editOps # <<>>)
    => /\ Len(editOps) = 1
       /\ op \in SwapOps
            => /\ editOps[1].from = OffsetAt(orig, StartOf(first))
               /\ editOps[1].to = OffsetAt(orig, EndOf(second))

\* what the code does: one replace of the combined span when the separator
\* is not empty, one replace per unit when it is
SwapEditsBySeparator ==
  (op \in SwapOps /\ first # NoSexp /\ second # NoSexp)
    => IF getSpaceBetween(orig, first, second) # <<>>
       THEN /\ Len(editOps) = 1
            /\ editOps[1].from = OffsetAt(orig, StartOf(first))
            /\ editOps[1].to = OffsetAt(orig, EndOf(second))
       ELSE /\ Len(editOps) = 2
            /\ editOps[1].from = OffsetAt(orig, StartOf(first))
            /\ editOps[1].to = OffsetAt(orig, EndOf(first))
            /\ editOps[2].from = OffsetAt(orig, StartOf(second))
            /\ editOps[2].to = OffsetAt(orig, EndOf(second))

\* two adjacent units swapped by two replace operations
AdjacentSwapTwoReplaces ==
  /\ op = "moveSexpDown"
  /\ Len(editOps) = 2
  /\ EndOf(first) = StartOf(second)

-----------------------------------------------------------------------------
(* The size order of parent candidates: the selection of the smallest of  *)
(* two candidates, on boundaries with short and with long columns          *)

SizeColumns == {0, 1, 1200, 2500}

SizeBoundaries ==
  {b \in [startLine : 0..1, startChar : SizeColumns,
          endLine : 0..MaxSizeLine, endChar : SizeColumns] :
     IsBefore(StartOf(b), EndOf(b))}

BoundaryContains(outer, inner) ==
  /\ IsBeforeOrEqual(StartOf(outer), StartOf(inner))
  /\ IsBeforeOrEqual(EndOf(inner), EndOf(outer))

\* two candidate parents of one position: distinct, one inside the other
InitSize ==
  /\ lang = "typescript"
  /\ doc = <<<<>>>>
  /\ cursor = Pos(0, 0)
  /\ op = "init"
  /\ startPos = cursor
  /\ orig = doc
  /\ pair = NoPair
  /\ sexp = NoSexp
  /\ scopeStart = NoLine
  /\ scopeEnd = NoLine
  /\ scopeInfo = NoScope
  /\ first \in SizeBoundaries
  /\ second \in SizeBoundaries
  /\ first # second
  /\ BoundaryContains(first, second) \/ BoundaryContains(second, first)
  /\ editOps = <<>>
  /\ wrapAround = FALSE
  /\ InitServices

\* the sort by size and the pick of candidateParents[0]
SelectSmallest ==
  /\ op = "init"
  /\ op' = "selectSmallest"
  /\ sexp' = SmallestFirst(<<first, second>>)
  /\ UNCHANGED <<doc, cursor, startPos, pair, lang, scopeStart, scopeEnd,
                 scopeInfo, orig, first, second, editOps, wrapAround,
                 selection, feature, factory, registry, returned>>

\* the loop over potentialParents of handlers.ts
LegacySelectSmallest ==
  /\ op = "init"
  /\ op' = "legacySelectSmallest"
  /\ sexp' = LegacySmallestLoop(<<first, second>>, 1, NoSexp)
  /\ UNCHANGED <<doc, cursor, startPos, pair, lang, scopeStart, scopeEnd,
                 scopeInfo, orig, first, second, editOps, wrapAround,
                 selection, feature, factory, registry, returned>>

NextSize ==
  \/ SelectSmallest
  \/ LegacySelectSmallest

SpecSize == InitSize /\ [][NextSize]_vars

LineSpan(b) == b.endLine - b.startLine

ColumnSpan(b) == b.endChar - b.startChar

\* a before b in the order (lineSpan, then columnSpan) ascending
SpanLess(a, b) ==
  \/ LineSpan(a) < LineSpan(b)
  \/ LineSpan(a) = LineSpan(b) /\ ColumnSpan(a) < ColumnSpan(b)

\* C19: the candidate selected is a minimum of the order (lineSpan, then
\* columnSpan): no other candidate spans fewer lines, whatever the columns,
\* or the same number of lines and fewer columns.
C19_SmallestBySpanOrder ==
  op \in {"selectSmallest", "legacySelectSmallest"}
    => /\ sexp \in {first, second}
       /\ ~SpanLess(first, sexp)
       /\ ~SpanLess(second, sexp)

\* the order holds while every column is short
ShortColumns(b) == b.startChar <= 1 /\ b.endChar <= 1

SmallestBySpanOrderShortColumns ==
  (op \in {"selectSmallest", "legacySelectSmallest"}
     /\ ShortColumns(first) /\ ShortColumns(second))
    => /\ sexp \in {first, second}
       /\ ~SpanLess(first, sexp)
       /\ ~SpanLess(second, sexp)

\* the one-line candidate loses to the two-line candidate around it
LongLineLoses ==
  /\ op = "selectSmallest"
  /\ LineSpan(second) = 0
  /\ LineSpan(first) = 1
  /\ BoundaryContains(first, second)
  /\ sexp = first

-----------------------------------------------------------------------------
(* Move up and move down when the sibling lookup finds nothing             *)

\* the unit at the cursor before the command
CurrentBefore == findForwardSexp(orig, startPos)

\* move up found a parent and a current unit but no previous sibling
NoPreviousSibling ==
  /\ op = "moveSexpUp"
  /\ CurrentBefore # NoSexp
  /\ findParentSexpression(orig, startPos, NoSexp) # NoSexp
  /\ findPreviousSibling(orig, CurrentBefore,
                         findParentSexpression(orig, startPos, NoSexp))
       = NoSexp

\* move down found a current unit but no next sibling
NoNextSibling ==
  /\ op = "moveSexpDown"
  /\ CurrentBefore # NoSexp
  /\ findForwardSexp(orig, EndOf(CurrentBefore)) = NoSexp

NothingSwapped ==
  /\ doc = orig
  /\ cursor = startPos
  /\ editOps = <<>>
  /\ first = NoSexp
  /\ second = NoSexp

C20_WitnessDown ==
  /\ NoNextSibling
  /\ NothingSwapped
  /\ startPos # Pos(0, 0)

-----------------------------------------------------------------------------
(* The pairs returned by the bracket finder                                *)

\* the one-based text indexes of the two brackets of a returned pair
PairIndexes(d, p) ==
  <<OffsetAt(d, Pos(p.openBracketLine, p.openBracketChar)) + 1,
    OffsetAt(d, Pos(p.closeBracketLine, p.closeBracketChar)) + 1>>

\* C25: every pair returned by containingPair or nextPair has a `{` at its
\* open position and a `}` at its close position, the open position comes
\* strictly before the close position, and the close is the brace at which
\* the depth counted from the open first returns to zero.
C25_ReturnedPairIsMatched ==
  (op \in {"containingPair", "nextPair"} /\ pair # NoPair)
    => /\ CharAt(LineText(doc, pair.openBracketLine), pair.openBracketChar)
            = OPEN_BRACE
       /\ CharAt(LineText(doc, pair.closeBracketLine), pair.closeBracketChar)
            = CLOSE_BRACE
       /\ IsBefore(Pos(pair.openBracketLine, pair.openBracketChar),
                   Pos(pair.closeBracketLine, pair.closeBracketChar))
       /\ PairIndexes(doc, pair) \in BracePairs(GetText(doc))

\* nextPair returns a pair whose close lies on a later line, over a nested
\* pair
C25_Witness ==
  /\ op = "nextPair"
  /\ pair # NoPair
  /\ pair.closeBracketLine > pair.openBracketLine
  /\ \E w \in BracePairs(GetText(doc)) :
       /\ PairIndexes(doc, pair)[1] < w[1]
       /\ w[2] < PairIndexes(doc, pair)[2]

C25_WitnessContaining ==
  /\ op = "containingPair"
  /\ pair # NoPair
  /\ pair.closeBracketLine > pair.openBracketLine

-----------------------------------------------------------------------------
(* The two units the commands hand to transposeSexpressions                *)

SwapCommands == {"transposeSexp", "moveSexpUp", "moveSexpDown"}

\* a command went on to transposeSexpressions with first and second
Swaps(name) == op = name /\ first # NoSexp /\ second # NoSexp

\* C26: whenever transpose, move up or move down call the swap, the first
\* unit ends at or before the start of the second: the units are in order
\* and do not overlap.
C26_SwapUnitsInOrder ==
  \A name \in SwapCommands :
    Swaps(name) => IsBeforeOrEqual(EndOf(first), StartOf(second))

LegacySwapUnitsInOrder ==
  Swaps("legacyMoveSexpUp") => IsBeforeOrEqual(EndOf(first), StartOf(second))

\* move up swaps two units that touch, and the text changes
C26_Witness ==
  /\ Swaps("moveSexpUp")
  /\ EndOf(first) = StartOf(second)
  /\ doc # orig

C26_WitnessTranspose ==
  /\ Swaps("transposeSexp")
  /\ IsBefore(EndOf(first), StartOf(second))
  /\ first.endLine < second.startLine

C26_WitnessDown ==
  /\ Swaps("moveSexpDown")
  /\ IsBefore(EndOf(first), StartOf(second))

-----------------------------------------------------------------------------
(* Progress of repeated navigation                                         *)

\* the unit returned by findForwardSexp is not empty and does not start
\* before the scan position; the cursor is moved on to its end
ForwardAdvances ==
  (op = "forwardSexp" /\ sexp # NoSexp)
    => /\ IsBefore(StartOf(sexp), EndOf(sexp))
       /\ IsBeforeOrEqual(startPos, StartOf(sexp))
       /\ cursor = EndOf(sexp)
       /\ IsBefore(startPos, cursor)

\* the unit returned by findBackwardSexp is not empty and does not end
\* after the scan position; the cursor is moved back to its start
BackwardAdvances ==
  (op = "backwardSexp" /\ sexp # NoSexp)
    => /\ IsBefore(StartOf(sexp), EndOf(sexp))
       /\ IsBeforeOrEqual(EndOf(sexp), startPos)
       /\ cursor = StartOf(sexp)
       /\ IsBefore(cursor, startPos)


\* one command repeated: forward-sexp again and again, or backward-sexp
\* again and again, from any cursor of any document
RepeatForwardSexp == op \in {"init", "forwardSexp"} /\ HandleForwardSexp

RepeatBackwardSexp == op \in {"init", "backwardSexp"} /\ HandleBackwardSexp

NextRepeat == RepeatForwardSexp \/ RepeatBackwardSexp

\* the command is invoked as long as it changes anything
RepeatDocs ==
  {SplitLines(t) : t \in SeqsUpTo(SexpAlphabet, MaxRepeatLen)}
    \cup SexpScenarioDocs

InitRepeat == InitWith(RepeatDocs, {"typescript"})

SpecRepeat == InitRepeat /\ [][NextRepeat]_vars /\ WF_vars(NextRepeat)

\* C27: a unit returned by forward is not empty and starts at or after the
\* scan position, a unit returned by backward is not empty and ends at or
\* before it, so each successful step moves the cursor strictly on (back),
\* and the repeated command ends with nothing found.
C27_NavigationAdvancesAndEnds ==
  /\ [](ForwardAdvances /\ BackwardAdvances)
  /\ <>(op # "init" /\ sexp = NoSexp)

\* forward found nothing after the last unit of a document that has units
C27_Witness ==
  /\ op = "forwardSexp"
  /\ sexp = NoSexp
  /\ findForwardSexp(doc, Pos(0, 0)) # NoSexp
  /\ LineCount(doc) > 1

C27_WitnessBackward ==
  /\ op = "backwardSexp"
  /\ sexp # NoSexp
  /\ IsBefore(EndOf(sexp), startPos)
  /\ sexp.endChar - sexp.startChar > 1

-----------------------------------------------------------------------------
(* Move down twice                                                         *)

\* every delimiter of the text from index i on is matched and properly
\* nested, given the stack of the openers that are still open
RECURSIVE NestedFrom(_, _, _)
NestedFrom(text, i, stack) ==
  IF i > Len(text) THEN stack = <<>>
  ELSE IF text[i] \in openingChars
       THEN NestedFrom(text, i + 1, <<text[i]>> \o stack)
       ELSE IF text[i] \in closingChars
            THEN /\ stack # <<>>
                 /\ matchingPairs(stack[1]) = text[i]
                 /\ NestedFrom(text, i + 1, Tail(stack))
            ELSE NestedFrom(text, i + 1, stack)

ProperlyNested(text) == NestedFrom(text, 1, <<>>)

\* C28: in a buffer whose delimiters are all matched and properly nested, a
\* second move down directly after a move down that swapped, with the
\* cursor left where the first put it, restores the text from before the
\* first call.
C28_MoveDownTwiceRestores ==
  (op = "moveSexpDownAgain" /\ ProperlyNested(GetText(orig)))
    => doc = orig

\* the units of the first call: it left the cursor at the start of the
\* unit it moved, which is where the second call starts from
FirstCallCurrent == findForwardSexp(orig, startPos)

FirstCallSibling == findForwardSexp(orig, EndOf(FirstCallCurrent))

\* the first call moved an identifier behind a unit that is directly
\* followed by an identifier character: the identifier and that character
\* are one run afterwards
JoinedByFirstCall ==
  /\ IsIdentChar(CharAt(GetText(orig),
                        OffsetAt(orig, StartOf(FirstCallCurrent))))
  /\ IsIdentChar(CharAt(GetText(orig),
                        OffsetAt(orig, EndOf(FirstCallSibling))))

\* C28 as amended: the text is restored unless the first call joined the
\* identifier it moved to an identifier character that followed the second
\* unit.
C28_MoveDownTwiceRestoresUnlessJoined ==
  (op = "moveSexpDownAgain" /\ ProperlyNested(GetText(orig))
     /\ ~JoinedByFirstCall)
    => doc = orig

\* joined units are not restored
JoinedIsNotRestored ==
  (op = "moveSexpDownAgain" /\ ProperlyNested(GetText(orig))
     /\ JoinedByFirstCall)
    => doc # orig

\* two calls swapped two different units, across a separator, and back
C28_Witness ==
  /\ op = "moveSexpDownAgain"
  /\ ProperlyNested(GetText(orig))
  /\ first # NoSexp
  /\ BoundaryText(doc, first) # BoundaryText(doc, second)
  /\ IsBefore(EndOf(first), StartOf(second))
  /\ doc = orig

C28_WitnessNested ==
  /\ op = "moveSexpDownAgain"
  /\ ProperlyNested(GetText(orig))
  /\ first # NoSexp
  /\ \E i \in 1..Len(GetText(orig)) : GetText(orig)[i] \in openingChars
  /\ BoundaryText(doc, first) # BoundaryText(doc, second)
  /\ doc = orig


-----------------------------------------------------------------------------
(* ScopeFinderFactory and the select command of ScopeHandlers that asks it *)
(* for the finder of the document's language.                              *)

\* the editor state and the results of the finder calls, op left out
editorVars == <<doc, cursor, startPos, pair, sexp, lang, scopeStart, scopeEnd, scopeInfo, orig, first, second, editOps, wrapAround>>

FactoryDocs == TsScenarioDocs \cup PyScenarioDocs

InitFactory ==
  /\ InitWith(FactoryDocs, LanguageIds)
  /\ cursor \in ScopeCursors(doc)

Initialize ==
  /\ op' = "initialize"
  /\ factory' = initialize(factory)
  /\ returned' = NoResult
  /\ UNCHANGED <<editorVars, selection, feature, registry>>

RegisterFinder ==
  \E finder \in Finders :
    /\ op' = "registerFinder"
    /\ factory' = registerFinder(factory, finder)
    /\ returned' = NoResult
    /\ UNCHANGED <<editorVars, selection, feature, registry>>

\* getFinder(document.languageId)
GetFinder ==
  /\ op' = "getFinder"
  /\ returned' = FactoryGetFinder(factory, lang)
  /\ UNCHANGED <<editorVars, selection, feature, factory, registry>>

\* the scope that handleSelectScope and handleDeleteScope of ScopeHandlers
\* act on: the function around the position, else the class around it,
\* else the currentScopeInfo argument
ChosenScope(scopeFinder, d, position, currentScopeInfo) ==
  LET containingFunction == findContainingFunction(scopeFinder, d, position)
      containingClass == findContainingClass(scopeFinder, d, position)
  IN IF containingFunction # NoScope THEN containingFunction
     ELSE IF containingClass # NoScope THEN containingClass
     ELSE currentScopeInfo

\* the range from column 0 of the start line to the end of the end line
ScopeRange(d, startLine, endLine) ==
  [anchor |-> Pos(startLine, 0),
   active |-> Pos(endLine, Len(LineText(d, endLine)))]

\* ScopeHandlers.handleSelectScope with selectScope: the finder comes from
\* the factory, the scope range becomes the selection
HandleSelectScope ==
  \E scopeFinder \in {FactoryGetFinder(factory, lang)} :
    \E chosen \in {ChosenScope(scopeFinder, doc, cursor, feature.currentScopeInfo)} :
      \E endLine \in {IF chosen = NoScope THEN NoLine ELSE findScopeBoundary(scopeFinder, doc, chosen.startLine, chosen.startLine)} :
        /\ op' = "handleSelectScope"
        /\ returned' = scopeFinder
        /\ Results([Cleared EXCEPT !.scopeInfo = chosen, !.scopeEnd = endLine])
        /\ selection' = IF endLine = NoLine THEN selection ELSE ScopeRange(doc, chosen.startLine, endLine)
        /\ cursor' = IF endLine = NoLine THEN cursor ELSE Pos(endLine, Len(LineText(doc, endLine)))
        /\ UNCHANGED <<doc, lang, orig, feature, factory, registry>>

NextFactory ==
  \/ Initialize
  \/ RegisterFinder
  \/ GetFinder
  \/ HandleSelectScope

SpecFactory == InitFactory /\ [][NextFactory]_vars

\* C22: after initialize(), getFinder('python') returns the indentation-based
\* Python finder, and getFinder returns the finder registered for the id,
\* the default finder only for an id with no registration.
C22_GetFinderReturnsRegistered ==
  (factory.initialized /\ op = "getFinder") =>
    /\ lang = "python" => returned = "python"
    /\ returned = IF factory.finders[lang] # NoFinder THEN factory.finders[lang] ELSE factory.defaultFinder

\* what getFinder does: the registered finder, else the default one
GetFinderRegisteredOrDefault ==
  op = "getFinder" =>
    returned = IF factory.finders[lang] # NoFinder THEN factory.finders[lang] ELSE factory.defaultFinder

\* initialize() alone registers no finder for python: the select command
\* treats a Python document with the brace-based finder
InitializeRegistersBraceFinderOnly ==
  (factory = initialize(NewFactory) /\ op \in {"getFinder", "handleSelectScope"}) =>
    /\ returned = "typescript"
    /\ returned = getFinder(lang)

\* a Python function around the cursor that the select command does not find
PythonScopeMissed ==
  /\ op = "handleSelectScope"
  /\ factory = initialize(NewFactory)
  /\ lang = "python"
  /\ scopeInfo = NoScope
  /\ PyFindContainingFunction(doc, startPos) # NoScope


-----------------------------------------------------------------------------
(* Delete Current Bracket Scope: BracketScopeHandlers                      *)
(* (bracket-scope/handlers) and deleteBracketScope of extension.ts.        *)

\* the range of the content between the brackets, the brackets left out
contentRange(bracketRange) ==
  [start |-> Pos(bracketRange.openBracketLine, bracketRange.openBracketChar + 1), end |-> Pos(bracketRange.closeBracketLine, bracketRange.closeBracketChar)]

\* a contentRange that covers the two brackets as well
performDeletionMut(d, range) ==
  SplitLines(ApplyEdits(d, <<[from |-> OffsetAt(d, range.start) - 1, to |-> OffsetAt(d, range.end) + 1, text |-> <<>>]>>))

\* editBuilder.delete(contentRange) inside editor.edit
performDeletion(d, range) ==
  SplitLines(ApplyEdits(d, <<Replace(d, range.start, range.end, <<>>)>>))

\* where the editor leaves a cursor after the characters from..to are gone
CursorAfterDelete(d, position, range) ==
  LET o == OffsetAt(d, position)
      from == OffsetAt(d, range.start)
      to == OffsetAt(d, range.end)
  IN IF o <= from THEN o ELSE IF o >= to THEN o - (to - from) ELSE from

\* the pair the command acts on: the pair around the cursor, else the next
bracketRangeAt(d, position) ==
  LET bracketRange == findBracketPairContainingCursor(d, position.line, position.character)
  IN IF bracketRange # NoPair THEN bracketRange
     ELSE findNextBracketPair(d, position.line, position.character)

\* the command from its call to its last edit; deletes says whether the
\* deletion is performed
DeletesBracketContent(name, deletes) ==
  \E bracketRange \in {bracketRangeAt(doc, cursor)} :
    /\ op' = name
    /\ Returns([Cleared EXCEPT !.pair = bracketRange])
    /\ orig' = doc
    /\ UNCHANGED lang
    /\ IF bracketRange # NoPair /\ deletes
       THEN \E after \in {performDeletion(doc, contentRange(bracketRange))} :
              /\ doc' = after
              /\ cursor' = PositionAt(after, CursorAfterDelete(doc, cursor, contentRange(bracketRange)))
       ELSE UNCHANGED <<doc, cursor>>

\* handleDeleteBracketScope with deleteBracketContent: with
\* highlightBeforeDeleting the deletion waits for the answer Delete
HandleDeleteBracketScope ==
  /\ op = "init"
  /\ \E highlightBeforeDeleting \in BOOLEAN, confirmed \in BOOLEAN :
       IF highlightBeforeDeleting
       THEN DeletesBracketContent(IF confirmed THEN "deleteBracketScopeConfirmed" ELSE "deleteBracketScopeCancelled", confirmed)
       ELSE /\ confirmed
            /\ DeletesBracketContent("deleteBracketScope", TRUE)

\* deleteBracketScope of extension.ts
LegacyDeleteBracketScope ==
  /\ op = "init"
  /\ DeletesBracketContent("legacyDeleteBracketScope", TRUE)

NextDelete ==
  \/ HandleDeleteBracketScope
  \/ LegacyDeleteBracketScope

SpecDelete == InitBracket /\ [][NextDelete]_vars

DeleteOps == {"deleteBracketScope", "deleteBracketScopeConfirmed", "legacyDeleteBracketScope"}

C23_WitnessContaining ==
  /\ op \in DeleteOps
  /\ pair # NoPair
  /\ findBracketPairContainingCursor(orig, startPos.line, startPos.character) = pair
  /\ doc # orig
  /\ PairIndexes(orig, pair)[1] > 1
  /\ PairIndexes(orig, pair)[2] < Len(GetText(orig))

\* no pair around the cursor and none after it: nothing is modified
C23_WitnessNoPair ==
  /\ op \in DeleteOps
  /\ pair = NoPair
  /\ \E i \in 1..Len(GetText(orig)) : GetText(orig)[i] \in {OPEN_BRACE, CLOSE_BRACE}

\* a cancelled confirmation leaves the buffer and the cursor as they were
CancelledDeleteChangesNothing ==
  op = "deleteBracketScopeCancelled" => doc = orig /\ cursor = startPos


-----------------------------------------------------------------------------
(* CommandRegistry (core/command-registry): the map commands from command  *)
(* ids to the disposables of their registrations.                          *)

\* disposable.dispose() called by the registry on disposable n
disposed(reg, n) ==
  [reg EXCEPT !.disposeCalls = [@ EXCEPT ![n] = @ + 1], !.dropped = @ \cup {n}]

\* a register that overwrites the previous registration without disposing it
registerMut(reg, id) ==
  LET disposable == reg.created + 1
  IN [reg EXCEPT !.commands = [@ EXCEPT ![id] = disposable],
                 !.created = disposable,
                 !.lastRegistered = [@ EXCEPT ![id] = disposable],
                 !.dropped = IF reg.commands[id] # NoDisposable THEN @ \cup {reg.commands[id]} ELSE @]

\* register: a previous registration of the id is disposed, the new
\* disposable of vscode.commands.registerCommand is put under the id
register(reg, id) ==
  LET warned == IF reg.commands[id] # NoDisposable THEN disposed(reg, reg.commands[id]) ELSE reg
      disposable == reg.created + 1
  IN [warned EXCEPT !.commands = [@ EXCEPT ![id] = disposable],
                    !.created = disposable,
                    !.lastRegistered = [@ EXCEPT ![id] = disposable]]

\* registerTextEditorCommand: the same steps around
\* vscode.commands.registerTextEditorCommand
registerTextEditorCommand(reg, id) ==
  LET warned == IF reg.commands[id] # NoDisposable THEN disposed(reg, reg.commands[id]) ELSE reg
      disposable == reg.created + 1
  IN [warned EXCEPT !.commands = [@ EXCEPT ![id] = disposable],
                    !.created = disposable,
                    !.lastRegistered = [@ EXCEPT ![id] = disposable]]

\* disposeCommand: the registry after the call
disposeCommand(reg, id) ==
  IF reg.commands[id] # NoDisposable
  THEN [disposed(reg, reg.commands[id]) EXCEPT !.commands = [@ EXCEPT ![id] = NoDisposable]]
  ELSE reg

\* this.commands.has(id)
hasCommand(reg, id) == reg.commands[id] # NoDisposable

\* commands.forEach(dispose) over the first ids values, then commands.clear()
RECURSIVE DisposeEach(_, _)
DisposeEach(reg, ids) ==
  IF ids = {} THEN reg
  ELSE LET id == CHOOSE x \in ids : TRUE
       IN DisposeEach(IF reg.commands[id] # NoDisposable THEN disposed(reg, reg.commands[id]) ELSE reg, ids \ {id})

dispose(reg) ==
  [DisposeEach(reg, CommandIds) EXCEPT !.commands = [id \in CommandIds |-> NoDisposable]]

\* a call of the registry: the id it was given and whether the id was a key
\* of commands before the call
RegistryCall(name, id, after, value) ==
  /\ op' = name
  /\ registry' = [after EXCEPT !.calledId = id, !.wasHeld = id \in CommandIds /\ hasCommand(registry, id)]
  /\ returned' = value
  /\ UNCHANGED <<editorVars, selection, feature, factory>>

Register ==
  \E id \in CommandIds :
    /\ registry.created < MaxRegistrations
    /\ RegistryCall("register", id, register(registry, id), registry.created + 1)

RegisterTextEditorCommand ==
  \E id \in CommandIds :
    /\ registry.created < MaxRegistrations
    /\ RegistryCall("registerTextEditorCommand", id, registerTextEditorCommand(registry, id), registry.created + 1)

DisposeCommand ==
  \E id \in CommandIds :
    RegistryCall("disposeCommand", id, disposeCommand(registry, id), registry.commands[id] # NoDisposable)

HasCommand ==
  \E id \in CommandIds :
    RegistryCall("hasCommand", id, registry, hasCommand(registry, id))

Dispose ==
  \E id \in {"none"} :
    RegistryCall("dispose", id, dispose(registry), NoResult)

NextRegistry ==
  \/ Register
  \/ RegisterTextEditorCommand
  \/ DisposeCommand
  \/ HasCommand
  \/ Dispose

InitRegistry == InitWith({<<<<>>>>}, {"typescript"})

SpecRegistry == InitRegistry /\ [][NextRegistry]_vars

\* the disposables the registry holds
Held == {registry.commands[id] : id \in CommandIds} \ {NoDisposable}

\* C29: after any sequence of register, registerTextEditorCommand,
\* disposeCommand and dispose calls the registry holds at most one disposable
\* per command id, the one of the most recent registration of that id, which
\* the registry has not disposed; every disposable it replaced or removed
\* has been disposed exactly once; hasCommand(id) is true exactly for the ids
\* held; disposeCommand(id) returns true exactly when id was held.
C29_RegistryHoldsLatestUndisposed ==
  /\ \A id \in CommandIds :
       registry.commands[id] # NoDisposable =>
         /\ registry.commands[id] = registry.lastRegistered[id]
         /\ registry.disposeCalls[registry.commands[id]] = 0
         /\ \A other \in CommandIds \ {id} : registry.commands[other] # registry.commands[id]
  /\ \A n \in 1..registry.created :
       IF n \in Held THEN n \notin registry.dropped
       ELSE n \in registry.dropped /\ registry.disposeCalls[n] = 1
  /\ op = "hasCommand" => (returned <=> registry.commands[registry.calledId] # NoDisposable)
  /\ op = "disposeCommand" =>
       /\ returned <=> registry.wasHeld
       /\ registry.commands[registry.calledId] = NoDisposable

\* an id registered twice and then disposed: the first disposable was
\* replaced, the second removed, each disposed once
C29_Witness ==
  /\ op = "disposeCommand"
  /\ returned = TRUE
  /\ Cardinality(registry.dropped) >= 2
  /\ Held # {}

\* disposeCommand of an id that is not held returns false
C29_WitnessNotHeld ==
  /\ op = "disposeCommand"
  /\ returned = FALSE
  /\ registry.lastRegistered[registry.calledId] # NoDisposable

\* dispose() of a registry that holds both ids
C29_WitnessDispose ==
  /\ op = "dispose"
  /\ Cardinality(registry.dropped) = MaxRegistrations


-----------------------------------------------------------------------------
(* ScopeDeletionFeature (scope-deletion/index) with FeatureModule: the     *)
(* status bar item, the stored currentScopeInfo, the selection listener    *)
(* with its debounce timer, and the select, delete and quick-pick          *)
(* commands.  The calls and the events are interleaved; an awaited dialog  *)
(* is a state (feature.pending) in which other steps can be taken.         *)

FeatureDocs ==
  { <<TsLineFunction, TsLineClose, TsLineMethod, TsLineClose>>,
    <<TsLineReturn, TsLineFunction, TsLineClose>>,
    <<TsLineClass, TsLineMethod, TsLineClose, TsLineClose>> }

\* an empty selection at position
Collapsed(position) == [anchor |-> position, active |-> position]

InitFeature ==
  /\ InitWith(FeatureDocs, {"typescript"})
  /\ cursor \in ScopeCursors(doc)

\* what the steps of the feature leave alone
featureFrame == <<pair, sexp, scopeStart, first, second, editOps, wrapAround, lang, factory, registry, returned>>

\* statusBarItem.show(): an item that was disposed is not shown again
show(f) == [f EXCEPT !.statusBarVisible = ~f.statusBarDisposed]

\* statusBarItem.hide()
hide(f) == [f EXCEPT !.statusBarVisible = FALSE]

\* the scope the feature's commands and updateStatusBar find at a position:
\* the function around it, else the class, interface or enum around it
ContainingScope(d, position) ==
  LET containingFunction == TsFindContainingFunction(d, position)
  IN IF containingFunction # NoScope THEN containingFunction
     ELSE TsFindContainingClass(d, position)

\* updateStatusBar for the active editor: currentScopeInfo is stored and the
\* item is shown, or the item is hidden and currentScopeInfo is null
updateStatusBar(f, d, position) ==
  LET containing == CHOOSE s \in {ContainingScope(d, position)} : TRUE
  IN IF containing # NoScope
     THEN show([f EXCEPT !.currentScopeInfo = containing])
     ELSE [hide(f) EXCEPT !.currentScopeInfo = NoScope]

\* onSelectionChange, when the listener is subscribed: the timeout is
\* cleared and set again
onSelectionChange(f) ==
  IF f.selectionChangeDisposable THEN [f EXCEPT !.selectionChangeTimeout = TRUE] ELSE f

\* startListeningToSelectionChanges
startListeningToSelectionChanges(f, d, position) ==
  IF ~f.selectionChangeDisposable
  THEN updateStatusBar([f EXCEPT !.selectionChangeDisposable = TRUE,
                                 !.activeEditorListener = TRUE,
                                 !.disposables = @ \cup {"activeEditorListener"}],
                       d, position)
  ELSE f

\* stopListeningToSelectionChanges
stopListeningToSelectionChanges(f) ==
  [f EXCEPT !.selectionChangeDisposable = FALSE]

\* FeatureModule.dispose: every disposable of the list is disposed
disposeAll(f) ==
  [f EXCEPT !.activeEditorListener = @ /\ "activeEditorListener" \notin f.disposables,
            !.statusBarDisposed = @ \/ "statusBarItem" \in f.disposables,
            !.statusBarVisible = @ /\ "statusBarItem" \notin f.disposables,
            !.disposables = {}]

\* a deactivate that clears the pending timeout as well
deactivateMut(f) ==
  [disposeAll(hide(stopListeningToSelectionChanges(f))) EXCEPT !.lifecycle = "deactivated", !.selectionChangeTimeout = FALSE]

\* deactivate: stop listening, hide the item, FeatureModule.deactivate
deactivate(f) ==
  [disposeAll(hide(stopListeningToSelectionChanges(f))) EXCEPT !.lifecycle = "deactivated"]

\* activate: start listening, show the item
activate(f, d, position) ==
  [show(startListeningToSelectionChanges(f, d, position)) EXCEPT !.lifecycle = "activated"]

\* a step that changes the feature only
FeatureStep(name, after) ==
  /\ op' = name
  /\ feature' = after
  /\ UNCHANGED <<doc, cursor, selection, startPos, orig, scopeInfo, scopeEnd, featureFrame>>

\* register(): the three commands and the status bar item join disposables
RegisterCommands ==
  /\ feature.lifecycle = "constructed"
  /\ "commands" \notin feature.disposables
  /\ FeatureStep("register", [feature EXCEPT !.disposables = @ \cup {"commands", "statusBarItem"}])

Activate ==
  /\ feature.lifecycle # "activated"
  /\ FeatureStep("activate", activate(feature, doc, cursor))

Deactivate ==
  /\ feature.lifecycle = "activated"
  /\ FeatureStep("deactivate", deactivate(feature))

\* the user moves the cursor: onDidChangeTextEditorSelection
SelectionChange ==
  \E position \in ScopeCursors(doc) \ {cursor} :
    /\ op' = "selectionChange"
    /\ cursor' = position
    /\ selection' = Collapsed(position)
    /\ feature' = onSelectionChange(feature)
    /\ UNCHANGED <<doc, startPos, orig, scopeInfo, scopeEnd, featureFrame>>

\* the 100 ms timeout of onSelectionChange runs its callback
SelectionChangeTimeout ==
  /\ feature.selectionChangeTimeout
  /\ FeatureStep("selectionChangeTimeout", updateStatusBar([feature EXCEPT !.selectionChangeTimeout = FALSE], doc, cursor))

\* onDidChangeActiveTextEditor, while its listener is not disposed
ActiveEditorChange ==
  /\ feature.activeEditorListener
  /\ FeatureStep("activeEditorChange", updateStatusBar(feature, doc, cursor))


\* editor.selection: the selection kept by the model, empty at the cursor
\* when no command has set it
editorSelection == IF selection = NoSelection THEN Collapsed(cursor) ELSE selection

\* the editor validates the positions of a selection it is given: the line
\* is brought into the buffer, the character into the line
validated(d, sel) ==
  [anchor |-> PositionAt(d, OffsetAt(d, sel.anchor)), active |-> PositionAt(d, OffsetAt(d, sel.active))]

\* selectScope and deleteScope of the feature, from the start line of a
\* scope: the end line is looked up in the buffer of the moment; the range
\* from the start line to the end of the end line is selected or deleted.
\* sel is the selection when the call begins; startPos, orig, scopeInfo
\* and scopeEnd record the call.
SelectsOrDeletes(name, f, sel, scope, deletes) ==
  \E endLine \in {TsFindScopeBoundary(doc, scope.startLine, scope.startLine)} :
    /\ op' = name
    /\ startPos' = sel.active
    /\ orig' = doc
    /\ scopeInfo' = scope
    /\ scopeEnd' = endLine
    /\ UNCHANGED featureFrame
    /\ IF endLine = NoLine
       THEN /\ doc' = doc
            /\ cursor' = sel.active
            /\ selection' = sel
            /\ feature' = f
       ELSE IF deletes
       THEN \E range \in {ScopeRange(doc, scope.startLine, endLine)} :
              \E after \in {performDeletion(doc, [start |-> range.anchor, end |-> range.active])} :
                /\ doc' = after
                /\ cursor' = PositionAt(after, CursorAfterDelete(doc, sel.active, [start |-> range.anchor, end |-> range.active]))
                /\ selection' = Collapsed(cursor')
                /\ feature' = onSelectionChange(f)
       ELSE /\ doc' = doc
            /\ selection' = ScopeRange(doc, scope.startLine, endLine)
            /\ cursor' = selection'.active
            /\ feature' = onSelectionChange(f)

\* the information message of a command that finds no scope
NoScopeMessage(name) ==
  /\ op' = name
  /\ startPos' = cursor
  /\ orig' = doc
  /\ scopeInfo' = NoScope
  /\ scopeEnd' = NoLine
  /\ UNCHANGED <<doc, cursor, selection, feature, featureFrame>>

\* handleSelectScope of the feature
FeatureHandleSelectScope ==
  \E scope \in {ContainingScope(doc, cursor)} :
    IF scope = NoScope THEN NoScopeMessage("handleSelectScope")
    ELSE SelectsOrDeletes("handleSelectScope", feature, editorSelection, scope, FALSE)

\* highlightAndConfirmDeletion up to its await: the scope range is selected
\* and the dialog is shown, the selections of before are kept for the answer
HighlightAndConfirmDeletionMut(scope) ==
  \E endLine \in {TsFindScopeBoundary(doc, scope.startLine, scope.startLine)} :
    /\ op' = "highlightAndConfirmDeletion"
    /\ startPos' = cursor
    /\ orig' = doc
    /\ scopeInfo' = scope
    /\ scopeEnd' = endLine
    /\ UNCHANGED featureFrame
    /\ IF endLine = NoLine
       THEN UNCHANGED <<doc, cursor, selection, feature>>
       ELSE /\ doc' = performDeletion(doc, [start |-> Pos(scope.startLine, 0), end |-> Pos(endLine, Len(LineText(doc, endLine)))])
            /\ selection' = Collapsed(Pos(scope.startLine, 0))
            /\ cursor' = selection'.active
            /\ feature' = onSelectionChange([feature EXCEPT !.pending = [kind |-> "confirm", startLine |-> scope.startLine, scopeType |-> scope.scopeType, originalSelections |-> editorSelection]])

HighlightAndConfirmDeletion(scope) ==
  \E endLine \in {TsFindScopeBoundary(doc, scope.startLine, scope.startLine)} :
    /\ op' = "highlightAndConfirmDeletion"
    /\ startPos' = cursor
    /\ orig' = doc
    /\ scopeInfo' = scope
    /\ scopeEnd' = endLine
    /\ UNCHANGED featureFrame
    /\ IF endLine = NoLine
       THEN UNCHANGED <<doc, cursor, selection, feature>>
       ELSE /\ doc' = doc
            /\ selection' = ScopeRange(doc, scope.startLine, endLine)
            /\ cursor' = selection'.active
            /\ feature' = onSelectionChange([feature EXCEPT !.pending = [kind |-> "confirm", startLine |-> scope.startLine, scopeType |-> scope.scopeType, originalSelections |-> editorSelection]])

\* handleDeleteScope of the feature, for either value of the setting
\* highlightBeforeDeleting
FeatureHandleDeleteScope ==
  \E highlightBeforeDeleting \in BOOLEAN :
    \E scope \in {ContainingScope(doc, cursor)} :
      IF scope = NoScope THEN highlightBeforeDeleting /\ NoScopeMessage("handleDeleteScope")
      ELSE IF highlightBeforeDeleting
           THEN feature.pending = NoPending /\ HighlightAndConfirmDeletion(scope)
           ELSE SelectsOrDeletes("handleDeleteScope", feature, editorSelection, scope, TRUE)

\* the answer to the dialog of highlightAndConfirmDeletion: the selections
\* are restored; Delete goes on to deleteScope with the start line found
\* before the dialog, Cancel or closing the dialog ends the command
AnswerConfirm ==
  /\ feature.pending.kind = "confirm"
  /\ \E answer \in {"Delete", "Cancel"} :
       \E f \in {[feature EXCEPT !.pending = NoPending]} :
         IF answer = "Delete"
         THEN SelectsOrDeletes("deleteScopeConfirmed", onSelectionChange(f), validated(doc, feature.pending.originalSelections), ScopeInfo(feature.pending.scopeType, feature.pending.startLine), TRUE)
         ELSE /\ op' = "deleteScopeCancelled"
              /\ selection' = validated(doc, feature.pending.originalSelections)
              /\ cursor' = selection'.active
              /\ feature' = onSelectionChange(f)
              /\ UNCHANGED <<doc, startPos, orig, scopeInfo, scopeEnd, featureFrame>>

\* showScopeActions up to its await: with a stored currentScopeInfo the
\* quick pick is shown
ShowScopeActions ==
  /\ feature.pending = NoPending
  /\ IF feature.currentScopeInfo = NoScope
     THEN FeatureStep("showScopeActionsNoScope", feature)
     ELSE FeatureStep("showScopeActions", [feature EXCEPT !.pending = [kind |-> "quickPick", startLine |-> NoLine, scopeType |-> feature.currentScopeInfo.scopeType, originalSelections |-> NoSelection]])

\* the answer to the quick pick: the start line is read from
\* this.currentScopeInfo and handed to selectScope or deleteScope; reading
\* it from null throws
AnswerQuickPick ==
  /\ feature.pending.kind = "quickPick"
  /\ \E action \in {"select", "delete", "dismiss"} :
       \E f \in {[feature EXCEPT !.pending = NoPending]} :
         IF action = "dismiss" THEN FeatureStep("quickPickDismissed", f)
         ELSE IF feature.currentScopeInfo = NoScope THEN FeatureStep("quickPickThrows", f)
         ELSE SelectsOrDeletes(IF action = "select" THEN "quickPickSelect" ELSE "quickPickDelete", f, editorSelection, ScopeInfo(feature.pending.scopeType, feature.currentScopeInfo.startLine), action = "delete")

\* the life cycle of the feature with the events of the editor
NextLifecycle ==
  \/ RegisterCommands
  \/ Activate
  \/ Deactivate
  \/ SelectionChange
  \/ SelectionChangeTimeout
  \/ ActiveEditorChange

SpecLifecycle == InitFeature /\ [][NextLifecycle]_vars

\* the commands of the activated feature with the cursor moves and the
\* debounced updates of the status bar
NextFeature ==
  \/ Activate
  \/ SelectionChange
  \/ SelectionChangeTimeout
  \/ FeatureHandleSelectScope
  \/ FeatureHandleDeleteScope
  \/ AnswerConfirm
  \/ ShowScopeActions
  \/ AnswerQuickPick

SpecFeature == InitFeature /\ [][NextFeature]_vars


\* a step that ran updateStatusBar
UpdateOps == {"selectionChangeTimeout", "activeEditorChange"}

\* C30: once deactivate() has run, the status bar item stays hidden and no
\* status bar update is performed until the next activate(), whatever the
\* interleaving of selection changes, pending debounce timeouts and active
\* editor changes with the activate and deactivate calls.
C30_DeactivatedStaysHidden ==
  feature.lifecycle = "deactivated" =>
    /\ ~feature.statusBarVisible
    /\ op \notin UpdateOps

\* what deactivate() does stop: both listeners are disposed, so no later
\* event sets a timeout or updates the status bar
DeactivateDisposesListeners ==
  feature.lifecycle = "deactivated" =>
    /\ ~feature.selectionChangeDisposable
    /\ ~feature.activeEditorListener
    /\ op # "activeEditorChange"

\* a status bar item that register() put among the disposables is disposed by
\* deactivate() and stays hidden
RegisteredItemStaysHidden ==
  (feature.lifecycle = "deactivated" /\ feature.statusBarDisposed) => ~feature.statusBarVisible

\* the timeout set before deactivate() is still pending after it
TimeoutSurvivesDeactivate ==
  /\ op = "deactivate"
  /\ feature.selectionChangeTimeout

\* the pending timeout ran updateStatusBar on the deactivated feature and
\* the item is shown again
ShownWhileDeactivated ==
  /\ feature.lifecycle = "deactivated"
  /\ op = "selectionChangeTimeout"
  /\ feature.statusBarVisible


-----------------------------------------------------------------------------
(* The scope a select or delete acts on, against the scope at the cursor   *)

\* the steps that went on to selectScope or deleteScope
ActingOps == {"handleSelectScope", "handleDeleteScope", "deleteScopeConfirmed", "quickPickSelect", "quickPickDelete"}

\* the step selected or deleted a range
Acted == op \in ActingOps /\ scopeInfo # NoScope /\ scopeEnd # NoLine

\* C21: every scope select or delete acts on a scope derived from the buffer
\* and the cursor position at the time the operation runs; no descriptor
\* computed by an earlier call (the stored currentScopeInfo) chooses the
\* range, under any interleaving of cursor moves, edits, debounced status bar
\* updates, quick-pick awaits and command invocations.
C21_ActsOnScopeAtCursor ==
  Acted =>
    /\ ContainingScope(orig, startPos) # NoScope
    /\ ContainingScope(orig, startPos).startLine = scopeInfo.startLine

\* the commands that look the scope up themselves act on the scope at the
\* cursor
DirectCommandsActOnScopeAtCursor ==
  (Acted /\ op \in {"handleSelectScope", "handleDeleteScope"}) =>
    ContainingScope(orig, startPos).startLine = scopeInfo.startLine

\* the quick pick acts on the start line stored in currentScopeInfo by the
\* last updateStatusBar
QuickPickActsOnStoredScope ==
  [][(op' \in {"quickPickSelect", "quickPickDelete"}) => scopeInfo'.startLine = feature.currentScopeInfo.startLine]_vars

\* the quick pick deletes a scope the cursor is not in
StaleScopeDeleted ==
  /\ op = "quickPickDelete"
  /\ Acted
  /\ doc # orig
  /\ ContainingScope(orig, startPos) # NoScope
  /\ ContainingScope(orig, startPos).startLine # scopeInfo.startLine


-----------------------------------------------------------------------------
(* Delete Current Scope with highlightBeforeDeleting                       *)

\* C24: with highlightBeforeDeleting enabled, Delete Current Scope modifies
\* the buffer only after the user chooses Delete in the confirmation dialog:
\* the step that highlights the scope and shows the dialog leaves the buffer
\* as it is, and when the dialog is cancelled or dismissed the buffer is
\* unchanged and the selections of before the dialog are restored.
C24_DeleteWaitsForConfirmation ==
  [][/\ op' = "highlightAndConfirmDeletion" => doc' = doc
     /\ op' = "deleteScopeCancelled" =>
          /\ doc' = doc
          /\ selection' = validated(doc, feature.pending.originalSelections)
          /\ cursor' = selection'.active]_vars

\* the dialog of a scope of several lines was cancelled: the buffer is the
\* one of before the command and the cursor is back where it was
C24_Witness ==
  /\ op = "deleteScopeCancelled"
  /\ doc = orig
  /\ scopeEnd > scopeInfo.startLine
  /\ cursor = startPos
  /\ selection = Collapsed(startPos)
  /\ startPos # Pos(scopeEnd, Len(LineText(doc, scopeEnd)))

\* while the dialog is open the scope range is selected and nothing is
\* deleted
C24_WitnessHighlighted ==
  /\ op = "highlightAndConfirmDeletion"
  /\ feature.pending.kind = "confirm"
  /\ doc = orig
  /\ selection = ScopeRange(doc, scopeInfo.startLine, scopeEnd)

\* the selections kept for the answer are those of before the command
PendingKeepsSelection ==
  op = "highlightAndConfirmDeletion" /\ feature.pending.kind = "confirm" =>
    feature.pending.originalSelections.active = startPos

\* Delete was chosen: the scope found before the dialog is deleted
ConfirmedDeleteRemovesScope ==
  /\ op = "deleteScopeConfirmed"
  /\ Acted
  /\ LineCount(doc) < LineCount(orig)

====
